---- MODULE Spec2Model ----
(***************************************************************************)
(* Model of the terminal-output interpretation engine of term-test         *)
(* (raibid-labs/mimic): ScreenState (src/src/screen.rs), its Sixel region  *)
(* extractor, and the harness operations that drive it                     *)
(* (src/src/harness.rs, src/src/pty.rs).                                   *)
(*                                                                         *)
(* Bytes are integers (their ASCII codes).  The cell-grid emulator is the  *)
(* vt100 crate behind ScreenState::feed; of it the model keeps the escape  *)
(* parser state, the cursor and the cells that have been written.  The     *)
(* Sixel extractor (sixel_regions and                                      *)
(* the SixelRegion list) is described by the specification, sections 3,    *)
(* 4.2 and 4.3, and exercised by tests/integration/sixel.rs.               *)
(***************************************************************************)
EXTENDS Integers, Sequences, FiniteSets, TLC

VARIABLES
    state,      \* TuiTestHarness.state : the ScreenState
    ptyBuf,     \* bytes readable from the PTY master and not yet read: output of
                \* the program under test, and the echo of what the test typed
    nWrites,    \* number of writes made to the PTY, from either side
    fed,        \* history: every byte fed to the current ScreenState, in order
    lastN,      \* size of the chunk passed to the last feed call (0: none yet)
    capture,    \* the SixelCapture the test holds (SixelCapture::new() at first)
    lastCall,   \* the last call of a SixelSequence / SixelCapture operation and its outcome
    overflowChecks, \* the build: TRUE with overflow checks (debug profile,
                    \* cargo test), FALSE without (release profile)
    wait,       \* the harness thread inside update_state / send_text /
                \* wait_for: its position, configuration, time elapsed on the
                \* wall clock, evaluations and sleeps so far, and result
    terminal    \* TuiTestHarness.terminal : the TestTerminal, with the child
                \* process it holds, the child a blocked wait has taken, and
                \* the ECHO mode of its PTY (made is FALSE before construction)

vars == <<state, ptyBuf, nWrites, fed, lastN, capture, lastCall, overflowChecks, wait,
          terminal>>

----------------------------------------------------------------------------
(* Bytes *)

ESC   == 27
LBR   == 91
CP    == 80
Cq    == 113
QUOTE == 34
SEMI  == 59
CH    == 72
BSL   == 92
HASH  == 35
TILDE == 126
D0    == 48
D9    == 57
U16Max == 65535

IsDigit(b) == b >= D0 /\ b <= D9

\* The bytes the model is defined on: ESC, the printable bytes used by cursor
\* addressing and by Sixel sequences, and digits other than '7' and '8'
\* (ESC 7 / ESC 8 save and restore the cursor, which is not modelled).
Alphabet == {ESC, LBR, CP, Cq, QUOTE, SEMI, CH, BSL, HASH, TILDE} \cup (D0 .. (D0 + 6))

Min(a, b) == IF a < b THEN a ELSE b

----------------------------------------------------------------------------
(* Cell-grid emulator: escape parser and cursor (vt100::Parser::process) *)

\* utf8: the bytes of a character whose encoding has begun.  replaces: the
\* parser the build links prints U+FFFD for a byte that is no part of a
\* character (later releases of the vte crate), or drops such a byte
\* (earlier ones).
VtInit == [st |-> "Ground", params |-> << >>, cur |-> 0, utf8 |-> << >>,
           replaces |-> TRUE]

\* The parsers a build can link.
VtBuilds == { [VtInit EXCEPT !.replaces = r] : r \in BOOLEAN }

\* VtCup that takes the column first.
VtCup_ColumnFirst(s, ps) ==
    LET p1 == IF Len(ps) >= 1 /\ ps[1] # 0 THEN ps[1] ELSE 1
        p2 == IF Len(ps) >= 2 /\ ps[2] # 0 THEN ps[2] ELSE 1
    IN  << Min(p2 - 1, s.height - 1), Min(p1 - 1, s.width - 1) >>

\* VtCup without the conversion from 1-based to 0-based.
VtCup_OneBased(s, ps) ==
    LET p1 == IF Len(ps) >= 1 /\ ps[1] # 0 THEN ps[1] ELSE 1
        p2 == IF Len(ps) >= 2 /\ ps[2] # 0 THEN ps[2] ELSE 1
    IN  << Min(p1, s.height - 1), Min(p2, s.width - 1) >>

\* CSI r ; c H : 1-based, a missing or zero parameter is 1, clamped to the grid.
VtCup(s, ps) ==
    LET p1 == IF Len(ps) >= 1 /\ ps[1] # 0 THEN ps[1] ELSE 1
        p2 == IF Len(ps) >= 2 /\ ps[2] # 0 THEN ps[2] ELSE 1
    IN  << Min(p1 - 1, s.height - 1), Min(p2 - 1, s.width - 1) >>

\* A printable byte in the ground state: wrap when the cursor is past the last
\* column (scrolling on the last row), write the cell, advance one column.
VtText(s) ==
    LET row == s.cursor[1]
        col == s.cursor[2]
    IN  IF col > s.width - 1
        THEN << Min(row + 1, s.height - 1), 1 >>
        ELSE << row, col + 1 >>

\* The grid is kept as the cells that have been written: a function from
\* << row, col >> to the character of the cell, a character being the bytes
\* of its UTF-8 encoding.  A cell that is not in the domain is an empty cell.
EmptyCells == [p \in {} |-> << >>]

PutCell(cells, pos, ch) ==
    [p \in DOMAIN cells \cup {pos} |-> IF p = pos THEN ch ELSE cells[p]]

\* The rows move up by one; the top row is lost.
ScrollUp(cells) ==
    [p \in { << q[1] - 1, q[2] >> : q \in { r \in DOMAIN cells : r[1] >= 1 } } |->
        cells[<< p[1] + 1, p[2] >>]]

\* The cells after a character of width 1 has been printed (see VtText).
VtPrint(s, ch) ==
    LET row == s.cursor[1]
        col == s.cursor[2]
    IN  IF col > s.width - 1
        THEN PutCell(IF row + 1 > s.height - 1 THEN ScrollUp(s.cells) ELSE s.cells,
                     << Min(row + 1, s.height - 1), 0 >>, ch)
        ELSE PutCell(s.cells, << row, col >>, ch)

\* UTF-8: the first byte of a two-byte character, a continuation byte.
IsLead2(b) == b >= 194 /\ b <= 223
IsContinuation(b) == b >= 128 /\ b <= 191
\* U+FFFD, the replacement character.
Replacement == << 239, 191, 189 >>

\* A byte in the ground state: the first byte of a two-byte character is
\* kept; a continuation byte completes the character, which is printed; a
\* continuation byte that continues nothing is printed as U+FFFD or
\* dropped, as the parser linked has it; any other byte is a character by
\* itself.  (Characters are of one or two bytes and of width 1, and the
\* first byte of a two-byte character is followed by a continuation byte.)
VtGround(s, b) ==
    IF IsLead2(b)
    THEN [vt |-> [s.vt EXCEPT !.utf8 = << b >>], cursor |-> s.cursor, cells |-> s.cells]
    ELSE IF IsContinuation(b) /\ s.vt.utf8 = << >> /\ ~ s.vt.replaces
    THEN [vt |-> s.vt, cursor |-> s.cursor, cells |-> s.cells]
    ELSE LET ch == IF IsContinuation(b)
                   THEN IF s.vt.utf8 # << >> THEN s.vt.utf8 \o << b >> ELSE Replacement
                   ELSE << b >>
         IN  [vt |-> [s.vt EXCEPT !.utf8 = << >>], cursor |-> VtText(s),
              cells |-> VtPrint(s, ch)]

IsIntermediate(b) == b >= 32 /\ b <= 47
IsFinal(b)        == b >= 64 /\ b <= 126

\* Carriage return and line feed.
CRLF == << 13, 10 >>

\* A control character is executed where it arrives, the parser staying in
\* its state: carriage return puts the cursor in column 0; line feed moves it
\* one row down, the screen scrolling up when it is on the last row.
VtExecute(s, b) ==
    LET row == s.cursor[1]
    IN  IF b = CRLF[1]
        THEN [vt |-> s.vt, cursor |-> << row, 0 >>, cells |-> s.cells]
        ELSE [vt |-> s.vt, cursor |-> << Min(row + 1, s.height - 1), s.cursor[2] >>,
              cells |-> IF row + 1 > s.height - 1 THEN ScrollUp(s.cells) ELSE s.cells]

\* One byte through the emulator: new parser state, cursor and cells.
VtStep(s, b) ==
    LET vt == s.vt
        stay == [vt |-> vt, cursor |-> s.cursor, cells |-> s.cells]
        goto(st) == [vt |-> [vt EXCEPT !.st = st], cursor |-> s.cursor, cells |-> s.cells]
    IN  IF b = ESC THEN goto("Escape")
        ELSE IF b \in { CRLF[1], CRLF[2] } /\ vt.st # "Dcs" THEN VtExecute(s, b)
        ELSE CASE vt.st = "Ground" -> VtGround(s, b)
               [] vt.st = "Escape" ->
                    IF b = LBR THEN [vt |-> [vt EXCEPT !.st = "Csi", !.params = << >>,
                                                       !.cur = 0],
                                     cursor |-> s.cursor, cells |-> s.cells]
                    ELSE IF b = CP THEN goto("Dcs")
                    ELSE IF IsIntermediate(b) THEN goto("EscInt")
                    ELSE goto("Ground")
               [] vt.st = "EscInt" ->
                    IF IsIntermediate(b) THEN stay ELSE goto("Ground")
               [] vt.st = "Csi" ->
                    IF IsDigit(b)
                    THEN [vt |-> [vt EXCEPT !.cur = Min(vt.cur * 10 + (b - D0), U16Max)],
                          cursor |-> s.cursor, cells |-> s.cells]
                    ELSE IF b = SEMI
                    THEN [vt |-> [vt EXCEPT !.params = Append(vt.params, vt.cur), !.cur = 0],
                          cursor |-> s.cursor, cells |-> s.cells]
                    ELSE IF IsIntermediate(b) THEN goto("CsiInt")
                    ELSE [vt |-> [vt EXCEPT !.st = "Ground"],
                          cursor |-> IF b = CH THEN VtCup(s, Append(vt.params, vt.cur))
                                     ELSE s.cursor,
                          cells |-> s.cells]
               [] vt.st = "CsiInt" ->
                    IF IsIntermediate(b) THEN stay
                    ELSE IF IsFinal(b) THEN goto("Ground")
                    ELSE goto("CsiIgnore")
               [] vt.st = "CsiIgnore" ->
                    IF IsFinal(b) THEN goto("Ground") ELSE stay
               [] OTHER -> stay   \* "Dcs": device control string, until ESC

----------------------------------------------------------------------------
(* Sixel extractor (specification 4.3) *)

NoField == -1

ExInit == [phase |-> "Idle", row |-> 0, col |-> 0, fields |-> << >>, cur |-> NoField,
           width |-> 0, height |-> 0, data |-> << >>]

SixelRegion(ex) ==
    [start_row |-> ex.row, start_col |-> ex.col,
     width |-> ex.width, height |-> ex.height, data |-> ex.data]

\* RasterDims reading the first two fields of the four-field form.
RasterDims_FirstTwo(fields) ==
    IF Len(fields) = 4 \/ Len(fields) = 2 THEN << fields[1], fields[2] >>
    ELSE << 0, 0 >>

\* Width and height of a finished raster clause: the last two of four fields,
\* or the two fields of the abbreviated form; anything else is no dimensions.
RasterDims(fields) ==
    IF Len(fields) = 4 THEN << fields[3], fields[4] >>
    ELSE IF Len(fields) = 2 THEN << fields[1], fields[2] >>
    ELSE << 0, 0 >>

\* PayloadByte that recognizes the terminator but does not keep the payload.
PayloadByte_NoData(ex, b) ==
    IF ex.phase = "PayloadEsc"
    THEN IF b = BSL
         THEN [ex |-> ExInit, emit |-> << SixelRegion([ex EXCEPT !.data = << >>]) >>]
         ELSE [ex |-> [ex EXCEPT !.phase = IF b = ESC THEN "PayloadEsc" ELSE "InPayload"],
               emit |-> << >>]
    ELSE [ex |-> [ex EXCEPT !.phase = IF b = ESC THEN "PayloadEsc" ELSE "InPayload"],
          emit |-> << >>]

\* PayloadByte that finalizes the region at ESC, without waiting for the
\* backslash of the terminator.
PayloadByte_EndAtEsc(ex, b) ==
    IF b = ESC
    THEN [ex |-> ExInit, emit |-> << SixelRegion(ex) >>]
    ELSE [ex |-> [ex EXCEPT !.phase = "InPayload", !.data = Append(ex.data, b)],
          emit |-> << >>]

\* A byte while accumulating the payload; ESC \ finalizes the region.
PayloadByte(ex, b) ==
    IF ex.phase = "PayloadEsc"
    THEN IF b = BSL
         THEN [ex |-> ExInit, emit |-> << SixelRegion(ex) >>]
         ELSE IF b = ESC
         THEN [ex |-> [ex EXCEPT !.data = Append(ex.data, ESC)], emit |-> << >>]
         ELSE [ex |-> [ex EXCEPT !.phase = "InPayload",
                                 !.data = ex.data \o << ESC, b >>],
               emit |-> << >>]
    ELSE IF b = ESC
         THEN [ex |-> [ex EXCEPT !.phase = "PayloadEsc"], emit |-> << >>]
         ELSE [ex |-> [ex EXCEPT !.phase = "InPayload", !.data = Append(ex.data, b)],
               emit |-> << >>]

\* Leave the raster clause with the given dimensions, then treat b as payload.
EndRaster(ex, dims, b) ==
    PayloadByte([ex EXCEPT !.phase = "InPayload", !.fields = << >>, !.cur = NoField,
                           !.width = dims[1], !.height = dims[2]], b)

\* RasterByte that keeps the fields read so far when a field has no digit.
RasterByte_KeepDims(ex, b) ==
    IF IsDigit(b)
    THEN [ex |-> [ex EXCEPT !.cur = IF ex.cur = NoField THEN b - D0
                                     ELSE ex.cur * 10 + (b - D0),
                            !.data = Append(ex.data, b)],
          emit |-> << >>]
    ELSE IF b = SEMI /\ ex.cur # NoField
    THEN [ex |-> [ex EXCEPT !.fields = Append(ex.fields, ex.cur), !.cur = NoField,
                            !.data = Append(ex.data, b)],
          emit |-> << >>]
    ELSE EndRaster(ex, RasterDims(IF ex.cur = NoField THEN ex.fields
                                  ELSE Append(ex.fields, ex.cur)), b)

\* A byte inside the raster-attribute clause.
RasterByte(ex, b) ==
    IF IsDigit(b)
    THEN LET v == IF ex.cur = NoField THEN b - D0 ELSE ex.cur * 10 + (b - D0)
         IN  IF v > U16Max
             THEN EndRaster(ex, << 0, 0 >>, b)
             ELSE [ex |-> [ex EXCEPT !.cur = v, !.data = Append(ex.data, b)],
                   emit |-> << >>]
    ELSE IF b = SEMI
    THEN IF ex.cur = NoField
         THEN EndRaster(ex, << 0, 0 >>, b)
         ELSE [ex |-> [ex EXCEPT !.fields = Append(ex.fields, ex.cur), !.cur = NoField,
                                 !.data = Append(ex.data, b)],
               emit |-> << >>]
    ELSE IF ex.cur = NoField
         THEN EndRaster(ex, << 0, 0 >>, b)
         ELSE EndRaster(ex, RasterDims(Append(ex.fields, ex.cur)), b)

\* One byte through the extractor; cursor is the emulator's cursor position
\* when the byte arrives.
SixelStep(ex, b, cursor) ==
    CASE ex.phase \in {"Idle", "IdleEsc", "IdleEscP"} ->
            IF b = ESC
            THEN [ex |-> [ExInit EXCEPT !.phase = "IdleEsc",
                                        !.row = cursor[1], !.col = cursor[2]],
                  emit |-> << >>]
            ELSE IF ex.phase = "IdleEsc" /\ b = CP
            THEN [ex |-> [ex EXCEPT !.phase = "IdleEscP"], emit |-> << >>]
            ELSE IF ex.phase = "IdleEscP" /\ b = Cq
            THEN [ex |-> [ex EXCEPT !.phase = "AwaitingRaster"], emit |-> << >>]
            ELSE [ex |-> ExInit, emit |-> << >>]
      [] ex.phase = "AwaitingRaster" ->
            IF b = QUOTE
            THEN [ex |-> [ex EXCEPT !.phase = "Raster", !.data = Append(ex.data, b)],
                  emit |-> << >>]
            ELSE PayloadByte([ex EXCEPT !.phase = "InPayload"], b)
      [] ex.phase = "Raster" -> RasterByte(ex, b)
      [] OTHER -> PayloadByte(ex, b)

----------------------------------------------------------------------------
(* ScreenState *)

ScreenState_new(width, height) ==
    [width |-> width, height |-> height, cursor |-> << 0, 0 >>,
     vt |-> VtInit, cells |-> EmptyCells, ex |-> ExInit, regions |-> << >>]

\* FeedByte that puts a finished region in front of the list.
FeedByte_Prepend(s, b) ==
    LET x == SixelStep(s.ex, b, s.cursor)
        v == VtStep(s, b)
    IN  [s EXCEPT !.ex = x.ex, !.regions = x.emit \o s.regions,
                  !.vt = v.vt, !.cursor = v.cursor, !.cells = v.cells]

\* FeedByte that keeps only the most recent region.
FeedByte_KeepLast(s, b) ==
    LET x == SixelStep(s.ex, b, s.cursor)
        v == VtStep(s, b)
    IN  [s EXCEPT !.ex = x.ex,
                  !.regions = IF x.emit = << >> THEN s.regions ELSE x.emit,
                  !.vt = v.vt, !.cursor = v.cursor, !.cells = v.cells]

\* FeedByte that tags a finished region with the cursor position at its
\* terminator instead of the position at its introducer.
FeedByte_LateCursor(s, b) ==
    LET x == SixelStep(s.ex, b, s.cursor)
        v == VtStep(s, b)
        late == [i \in 1 .. Len(x.emit) |->
                    [x.emit[i] EXCEPT !.start_row = s.cursor[1],
                                      !.start_col = s.cursor[2]]]
    IN  [s EXCEPT !.ex = x.ex, !.regions = s.regions \o late,
                  !.vt = v.vt, !.cursor = v.cursor, !.cells = v.cells]

\* One byte of feed: the extractor sees the byte with the cursor position the
\* emulator has established so far, then the emulator consumes the byte.
FeedByte(s, b) ==
    LET x == SixelStep(s.ex, b, s.cursor)
        v == VtStep(s, b)
    IN  [s EXCEPT !.ex = x.ex, !.regions = s.regions \o x.emit,
                  !.vt = v.vt, !.cursor = v.cursor, !.cells = v.cells]

RECURSIVE FeedFrom(_, _, _)
FeedFrom(s, data, i) ==
    IF i > Len(data) THEN s ELSE FeedFrom(FeedByte(s, data[i]), data, i + 1)

\* feed whose extractor is a transient computation, restarted at each call.
feed_Transient(s, data) == FeedFrom([s EXCEPT !.ex = ExInit], data, 1)

feed(s, data) == FeedFrom(s, data, 1)

\* Option
None == [some |-> FALSE]
Some(v) == [some |-> TRUE, value |-> v]

\* The outcome of a call: it returned a value, or it panicked.
Returned(v) == [panic |-> FALSE, value |-> v]
Panicked == [panic |-> TRUE]

SP == 32

\* screen().cell(row, col): the cell of the emulator's grid, None off the
\* grid; the value is the cell's contents(), the empty string for a cell
\* that has not been written.
cell(s, row, col) ==
    IF row < s.height /\ col < s.width
    THEN Some(IF << row, col >> \in DOMAIN s.cells THEN s.cells[<< row, col >>] ELSE << >>)
    ELSE None

RECURSIVE RowFrom(_, _, _)
\* The contents of the cells col, col + 1, .. of a row, a space for a cell off
\* the grid, collected into one string (its UTF-8 bytes).
RowFrom(s, row, col) ==
    IF col >= s.width THEN << >>
    ELSE LET c == cell(s, row, col)
         IN  (IF c.some THEN c.value ELSE << SP >>) \o RowFrom(s, row, col + 1)

\* row_contents without the early return for a row off the screen.
row_contents_Unchecked(s, row) == RowFrom(s, row, 0)

\* ScreenState::row_contents
row_contents(s, row) ==
    IF row >= s.height THEN << >> ELSE RowFrom(s, row, 0)

\* ScreenState::char_at: the first character of the cell's contents.
char_at(s, row, col) ==
    IF row >= s.height \/ col >= s.width THEN None
    ELSE LET c == cell(s, row, col)
         IN  IF c.some /\ c.value # << >> THEN Some(c.value) ELSE None

\* str::is_char_boundary: the start, the end, or a byte that is not a
\* continuation byte.
is_char_boundary(str, index) ==
    \/ index = 0
    \/ index = Len(str)
    \/ index < Len(str) /\ ~ (str[index + 1] >= 128 /\ str[index + 1] <= 191)

\* str::starts_with
starts_with(str, prefix) ==
    Len(prefix) <= Len(str) /\ SubSeq(str, 1, Len(prefix)) = prefix

\* text_at that looks the text up in the cells from column col on.
text_at_ByCell(s, row, col, text) ==
    IF row >= s.height \/ col >= s.width THEN Returned(FALSE)
    ELSE Returned(starts_with(RowFrom(s, row, col), text))

\* ScreenState::text_at: the row's string is sliced at the byte offset col
\* (row_contents[col as usize..], which panics off a character boundary).
text_at(s, row, col, text) ==
    IF row >= s.height \/ col >= s.width THEN Returned(FALSE)
    ELSE LET str == row_contents(s, row)
         IN  IF col >= Len(str) THEN Returned(FALSE)
             ELSE IF ~ is_char_boundary(str, col) THEN Panicked
             ELSE Returned(starts_with(SubSeq(str, col + 1, Len(str)), text))

cursor_position(s) == s.cursor
sixel_regions(s) == s.regions
size(s) == << s.width, s.height >>

\* has_sixel_at that tests whether the cell lies under the region, taking the
\* pixel size for a size in cells.
has_sixel_at_Covering(s, row, col) ==
    \E i \in 1 .. Len(s.regions) :
        /\ s.regions[i].start_row <= row
        /\ row <= s.regions[i].start_row + s.regions[i].height
        /\ s.regions[i].start_col <= col
        /\ col <= s.regions[i].start_col + s.regions[i].width

\* ScreenState::has_sixel_at (specification 4.2): some region starts exactly
\* at (row, col).
has_sixel_at(s, row, col) ==
    \E i \in 1 .. Len(s.regions) :
        s.regions[i].start_row = row /\ s.regions[i].start_col = col

\* TuiTestHarness::sixel_at: the oldest region that starts at (row, col).
sixel_at(s, row, col) ==
    LET hits == { i \in 1 .. Len(s.regions) :
                    s.regions[i].start_row = row /\ s.regions[i].start_col = col }
    IN  IF has_sixel_at(s, row, col)
        THEN Some(s.regions[CHOOSE i \in hits : \A j \in hits : i <= j])
        ELSE None

\* TuiTestHarness::sixel_count
sixel_count(s) == Len(s.regions)

----------------------------------------------------------------------------
(* Byte streams of the program under test *)

RECURSIVE Dec(_)
\* Decimal digits of n, as the program under test prints a number.
Dec(n) == IF n < 10 THEN << D0 + n >> ELSE Dec(n \div 10) \o << D0 + (n % 10) >>

Cup(r, c) == << ESC, LBR >> \o Dec(r) \o << SEMI >> \o Dec(c) \o << CH >>
Intro == << ESC, CP, Cq >>
ST == << ESC, BSL >>
Raster4(pa, pb, ph, pv) ==
    << QUOTE >> \o Dec(pa) \o << SEMI >> \o Dec(pb) \o << SEMI >> \o Dec(ph)
                \o << SEMI >> \o Dec(pv)
Raster2(ph, pv) == << QUOTE >> \o Dec(ph) \o << SEMI >> \o Dec(pv)
Sixel(raster, payload) == Intro \o raster \o payload \o ST

\* Bounds of the model
MaxWrites == 2
MaxSeqs == 2
MaxChunk == 2

\* Screen size used by the tests (ScreenState::new(80, 24))
ScreenW == 80
ScreenH == 24

\* What the program under test may write in one piece: single bytes, cursor
\* addressing (in range, and with a zero row and a column past the screen),
\* parts of a Sixel sequence, a broken introducer, and whole sequences (one
\* of them with cursor addressing inside its payload).
ByteTokens == { << b >> : b \in {ESC, BSL, QUOTE, D0 + 1} }

SeqTokens ==
    { Cup(2, 3), Cup(0, 82), ST,
      Intro \o Raster2(12, 3) \o << HASH >>,
      << ESC, CP, SEMI >>,
      Cup(3, 2) \o Sixel(Raster4(1, 1, 21, 2), << TILDE >>),
      Sixel(<< >>, << HASH >> \o Cup(4, 5)) }

Tokens == ByteTokens \cup SeqTokens

\* Complete Sixel sequences, each preceded by its own cursor addressing.
Positions == { << 5, 10 >>, << 1, 1 >>, << 24, 80 >> }
FourFields == { << 1, 1, 100, 50 >>, << 1, 1, 3840, 2160 >>, << 2, 1, 5, 640 >> }
TwoFields == { << 400, 300 >>, << 0, 7 >> }
FourRaster(f) == Raster4(f[1], f[2], f[3], f[4])
TwoRaster(f) == Raster2(f[1], f[2])

\* Clauses in which a field has no digit: no field at all, an empty second
\* field, an empty third field.
EmptyFieldRasters ==
    { << QUOTE >>,
      << QUOTE >> \o Dec(12) \o << SEMI >>,
      Raster2(12, 3) \o << SEMI >> }
\* Other clauses that declare no usable width and height: three fields, five
\* fields, an empty first field, a field beyond 16 bits.
OddRasters ==
    { Raster2(1, 2) \o << SEMI >> \o Dec(3),
      Raster4(1, 1, 2, 3) \o << SEMI >> \o Dec(4),
      << QUOTE, SEMI >> \o Dec(1) \o << SEMI >> \o Dec(2),
      Raster2(65536, 2) }
Rasters ==
    { << >> } \cup { FourRaster(f) : f \in FourFields }
              \cup { TwoRaster(f) : f \in TwoFields }
              \cup EmptyFieldRasters \cup OddRasters
Payloads == { << >>, << HASH >>, << HASH, D0 + 1, ESC, TILDE >> }

PlacedSixel(pos, raster, payload) == Cup(pos[1], pos[2]) \o Sixel(raster, payload)

SingleStreams ==
    { PlacedSixel(pos, raster, payload) :
        pos \in Positions, raster \in Rasters, payload \in Payloads }

\* The sequences fed one after another (test_multiple_sixel_sequences), with
\* the dimensions each declares.
MultiSeqs ==
    { [pos |-> << 10, 10 >>, raster |-> Raster4(1, 1, 200, 150), w |-> 200, h |-> 150,
       payload |-> << HASH, TILDE >>],
      [pos |-> << 20, 60 >>, raster |-> Raster2(300, 200), w |-> 300, h |-> 200,
       payload |-> << TILDE >>],
      [pos |-> << 15, 30 >>, raster |-> << >>, w |-> 0, h |-> 0,
       payload |-> << HASH >>] }

SeqBytes(q) == PlacedSixel(q.pos, q.raster, q.payload)

RECURSIVE ConcatSeqs(_, _)
\* The byte stream of the sequences qs[i], qs[i+1], ...
ConcatSeqs(qs, i) ==
    IF i > Len(qs) THEN << >> ELSE SeqBytes(qs[i]) \o ConcatSeqs(qs, i + 1)

SeqLists == UNION { [1 .. k -> MultiSeqs] : k \in 1 .. MaxSeqs }

\* test_harness_sixel_at: ESC[8;15H, a 120x80 Sixel.
SixelAtStream ==
    PlacedSixel(<< 8, 15 >>, Raster4(1, 1, 120, 80), << HASH, D0, TILDE >>)

Streams ==
    SingleStreams \cup { ConcatSeqs(qs, 1) : qs \in SeqLists } \cup { SixelAtStream }

Widths == {0, ScreenW}
Heights == {0, ScreenH}

----------------------------------------------------------------------------
(* Geometry: SixelSequence (src/src/sixel.rs) *)

\* A rectangle is a tuple <<row, col, width, height>> of u16 values, as the
\* (u16, u16, u16, u16) tuples of the source.
U16 == 0 .. U16Max

\* x + y on u16 operands: the sum exceeds the type.
Overflows(x, y) == x + y > U16Max

\* The value a u16 addition yields in a build without overflow checks.
WrapU16(n) == n % (U16Max + 1)

\* SixelSequence::new that ignores the bounds it is given and derives a
\* zero-sized rectangle from the position.
SixelSequence_new_NoSize(raw, position, bounds) ==
    [raw |-> raw, position |-> position,
     bounds |-> << position[1], position[2], 0, 0 >>]

\* SixelSequence::new
SixelSequence_new(raw, position, bounds) ==
    [raw |-> raw, position |-> position, bounds |-> bounds]

\* SixelSequence::is_within.  The outcome of a call is "true", "false", or
\* "panic" (attempt to add with overflow, in a build with overflow checks).
\* The conjuncts are evaluated left to right and the sums only when reached.
is_within(self, area) ==
    LET row == self.bounds[1]
        col == self.bounds[2]
        width == self.bounds[3]
        height == self.bounds[4]
        area_row == area[1]
        area_col == area[2]
        area_width == area[3]
        area_height == area[4]
    IN  IF ~(row >= area_row) THEN "false"
        ELSE IF ~(col >= area_col) THEN "false"
        ELSE IF overflowChecks /\ (Overflows(row, height) \/ Overflows(area_row, area_height))
             THEN "panic"
        ELSE IF ~(WrapU16(row + height) <= WrapU16(area_row + area_height)) THEN "false"
        ELSE IF overflowChecks /\ (Overflows(col, width) \/ Overflows(area_col, area_width))
             THEN "panic"
        ELSE IF WrapU16(col + width) <= WrapU16(area_col + area_width) THEN "true"
        ELSE "false"

\* SixelSequence::overlaps, with the same outcomes.  The four disjuncts under
\* the negation are evaluated left to right, each sum only when reached.
overlaps(self, area) ==
    LET row == self.bounds[1]
        col == self.bounds[2]
        width == self.bounds[3]
        height == self.bounds[4]
        area_row == area[1]
        area_col == area[2]
        area_width == area[3]
        area_height == area[4]
    IN  IF overflowChecks /\ Overflows(row, height) THEN "panic"
        ELSE IF WrapU16(row + height) <= area_row THEN "false"
        ELSE IF overflowChecks /\ Overflows(col, width) THEN "panic"
        ELSE IF WrapU16(col + width) <= area_col THEN "false"
        ELSE IF overflowChecks /\ Overflows(area_row, area_height) THEN "panic"
        ELSE IF row >= WrapU16(area_row + area_height) THEN "false"
        ELSE IF overflowChecks /\ Overflows(area_col, area_width) THEN "panic"
        ELSE IF col >= WrapU16(area_col + area_width) THEN "false"
        ELSE "true"

----------------------------------------------------------------------------
(* SixelCapture (src/src/sixel.rs) *)

\* SixelCapture::new
SixelCapture_new == [sequences |-> << >>]

\* The pixel size << width, height >> of a terminal cell.  A SixelRegion keeps
\* the pixel size its raster clause declares, the areas a capture is
\* compared with are in terminal cells, and test_sixel_bounds_validation,
\* test_harness_assert_within_bounds and test_multiple_sixels_boundary_checking
\* (src/tests/integration/sixel.rs) hold only when the bounds of a captured
\* sequence are in cells as well.  The size of the cell is not fixed by the
\* source; these are two sizes under which every test of that file holds.
CellSizes == { << 10, 20 >>, << 12, 24 >> }

\* The number of cells that px pixels span when a cell is per pixels.
CellsSpanned(px, per) == (px + per - 1) \div per

\* from_screen_state that takes the pixel size of a region for its size in
\* cells.
from_screen_state_Pixels(s, cellPx) ==
    LET rs == sixel_regions(s)
    IN  [sequences |->
            [i \in 1 .. Len(rs) |->
                SixelSequence_new(rs[i].data,
                                  << rs[i].start_row, rs[i].start_col >>,
                                  << rs[i].start_row, rs[i].start_col,
                                     rs[i].width, rs[i].height >>)]]

\* SixelCapture::from_screen_state: one SixelSequence per detected region, in
\* detection order, copied out of the ScreenState; its bounds start at the
\* region's start cell and extend over the cells the region's pixels span.
from_screen_state(s, cellPx) ==
    LET rs == sixel_regions(s)
    IN  [sequences |->
            [i \in 1 .. Len(rs) |->
                SixelSequence_new(rs[i].data,
                                  << rs[i].start_row, rs[i].start_col >>,
                                  << rs[i].start_row, rs[i].start_col,
                                     CellsSpanned(rs[i].width, cellPx[1]),
                                     CellsSpanned(rs[i].height, cellPx[2]) >>)]]

\* A sequences accessor that reads the regions of the current ScreenState
\* instead of the sequences the capture holds.
sequences_Live(self) ==
    from_screen_state(state, CHOOSE cellPx \in CellSizes : TRUE).sequences

\* SixelCapture::sequences
sequences(self) == self.sequences

\* SixelCapture::is_empty
is_empty(self) == self.sequences = << >>

\* is_within panics for some sequence of the capture.
AnyPanic(self, area) ==
    \E i \in 1 .. Len(self.sequences) : is_within(self.sequences[i], area) = "panic"

\* SixelCapture::sequences_in_area: filter(|seq| seq.is_within(area))
sequences_in_area(self, area) ==
    IF AnyPanic(self, area) THEN Panicked
    ELSE LET Inside(seq) == is_within(seq, area) = "true"
         IN  Returned(SelectSeq(self.sequences, Inside))

\* SixelCapture::sequences_outside_area: filter(|seq| !seq.is_within(area))
sequences_outside_area(self, area) ==
    IF AnyPanic(self, area) THEN Panicked
    ELSE LET Outside(seq) == is_within(seq, area) # "true"
         IN  Returned(SelectSeq(self.sequences, Outside))

\* SixelCapture::assert_all_within: Ok(()) when nothing is outside, else
\* Err(SixelValidation) reporting the count, the area and the positions.
assert_all_within(self, area) ==
    LET outside == sequences_outside_area(self, area)
    IN  IF outside.panic THEN Panicked
        ELSE IF outside.value = << >> THEN Returned([ok |-> TRUE])
        ELSE Returned([ok |-> FALSE, error |-> "SixelValidation",
                       count |-> Len(outside.value), area |-> area,
                       positions |-> [i \in 1 .. Len(outside.value) |->
                                         outside.value[i].position]])

\* differs_from that compares only how many sequences the captures hold.
differs_from_LenOnly(self, other) == Len(self.sequences) # Len(other.sequences)

\* SixelCapture::differs_from
differs_from(self, other) == self.sequences # other.sequences

\* No SixelSequence / SixelCapture operation has been called yet.
NoCall == [op |-> "none"]

----------------------------------------------------------------------------
(* update_state and wait_for (src/src/harness.rs) *)

\* The harness thread is in neither update_state nor wait_for.
WaitIdle == [pc |-> "idle"]

\* Durations are counted in microseconds.
MicrosPerMilli == 1000

\* Duration::as_millis: whole milliseconds, the fraction dropped.
as_millis(d) == d \div MicrosPerMilli

\* What one read of the byte source can report besides data: errors, as the
\* TermTestError that TestTerminal::read builds.  The text is the Display
\* text of the underlying error.  A would-block report of the operating
\* system is an io::Error of kind WouldBlock whose text is the system's
\* message; a source may also word its would-block error "WouldBlock".
WouldBlockOs ==
    [variant |-> "Io", kind |-> "WouldBlock",
     text |-> "Resource temporarily unavailable (os error 11)"]
WouldBlockNamed == [variant |-> "Io", kind |-> "WouldBlock", text |-> "WouldBlock"]
\* EIO: an error of the operating system that std gives no named kind.
IoFailure ==
    [variant |-> "Io", kind |-> "Uncategorized", text |-> "Input/output error (os error 5)"]
PtyFailure == [variant |-> "Pty", kind |-> "None", text |-> "cannot clone the reader"]

WouldBlocks == {WouldBlockOs, WouldBlockNamed}
Failures == {IoFailure, PtyFailure}

\* e.to_string().contains("WouldBlock"): of the texts above only the last
\* word of WouldBlockNamed contains it ("I/O error: " and "PTY error: ", the
\* prefixes Display adds, do not).
MentionsWouldBlock(e) == e.text = "WouldBlock"

ReadData(n) == [kind |-> "Data", n |-> n]
ReadZero == [kind |-> "Zero"]
ReadErr(e) == [kind |-> "Err", error |-> e]

\* The outcomes the byte source can give to one read when buf is what the
\* program under test has written and nobody has read: up to MaxChunk bytes
\* of it, or, when there is none, end of data (Ok(0)) or a would-block
\* report; a failure at any time.
ReadOutcomes(buf) ==
    { ReadErr(e) : e \in Failures }
        \cup (IF buf # << >>
              THEN { ReadData(n) : n \in 1 .. Min(Len(buf), MaxChunk) }
              ELSE { ReadZero } \cup { ReadErr(e) : e \in WouldBlocks })

\* An update_state loop that leaves at the first data it reads, without
\* feeding it.
ReadArm_StopAtData(outcome) ==
    IF outcome.kind \in {"Zero", "Data"} THEN "break"
    ELSE IF outcome.error.text = "WouldBlock" THEN "break"
    ELSE "return"

\* An update_state loop that leaves at every error, as at Ok(0).
ReadArm_SwallowErrors(outcome) ==
    IF outcome.kind = "Data" THEN "feed" ELSE "break"

\* The arm of the match in update_state that a read outcome selects:
\* Ok(0) => break, Ok(n) => feed, Err(e) if the text names WouldBlock => break,
\* Err(e) => return Err(e).
ReadArm(outcome) ==
    IF outcome.kind = "Zero" THEN "break"
    ELSE IF outcome.kind = "Data" THEN "feed"
    ELSE IF MentionsWouldBlock(outcome.error) THEN "break"
    ELSE "return"

Ok == [ok |-> TRUE]
Err(e) == [ok |-> FALSE, error |-> e]
Timeout(ms) == [variant |-> "Timeout", timeout_ms |-> ms]

\* The predicates the tests wait for: one that never holds (a cursor position
\* off the screen), a cursor position, and the presence of a Sixel region.
Conditions == {"never", "cursor_at_1_2", "has_sixel"}

Condition(name, s) ==
    IF name = "cursor_at_1_2" THEN cursor_position(s) = << 1, 2 >>
    ELSE IF name = "has_sixel" THEN sixel_regions(s) # << >>
    ELSE FALSE

\* The call has returned r.
Done(w, r) == [w EXCEPT !.pc = "done", !.result = r]

\* Time on the wall clock, beyond the sleeps asked for: what the reads of one
\* drain and the evaluation of the condition take (nothing, half a
\* millisecond, longer than every timeout), and by how much thread::sleep
\* lasts longer than the interval.
Delays == {0, MicrosPerMilli \div 2, 3 * MicrosPerMilli}
Oversleeps == {0, MicrosPerMilli \div 2}

\* A wait_for that takes the timeout for reached one poll interval early.
WaitDecision_Early(w, satisfied, spent, overslept) ==
    LET v == [w EXCEPT !.evals = @ + 1, !.elapsed = @ + spent]
    IN  IF satisfied THEN Done(v, Ok)
        ELSE IF v.elapsed + w.poll_interval >= w.timeout
             THEN Done(v, Err(Timeout(as_millis(w.timeout))))
        ELSE [v EXCEPT !.elapsed = @ + w.poll_interval + overslept, !.sleeps = @ + 1]

\* A wait_for that checks the deadline before it evaluates the condition.
WaitDecision_DeadlineFirst(w, satisfied, spent, overslept) ==
    LET v == [w EXCEPT !.evals = @ + 1, !.elapsed = @ + spent]
    IN  IF v.elapsed >= w.timeout
        THEN Done(v, Err(Timeout(as_millis(w.timeout))))
        ELSE IF satisfied THEN Done(v, Ok)
        ELSE [v EXCEPT !.elapsed = @ + w.poll_interval + overslept, !.sleeps = @ + 1]

\* wait_for after update_state has returned Ok: the condition, then the
\* timeout check against start.elapsed(), then the sleep of one poll
\* interval.  elapsed is the time since start: spent has passed in this
\* iteration before the check, and the sleep lasts the interval and overslept
\* more.
WaitDecision(w, satisfied, spent, overslept) ==
    LET v == [w EXCEPT !.evals = @ + 1, !.elapsed = @ + spent]
    IN  IF satisfied THEN Done(v, Ok)
        ELSE IF v.elapsed >= w.timeout
             THEN Done(v, Err(Timeout(as_millis(w.timeout))))
        ELSE [v EXCEPT !.elapsed = @ + w.poll_interval + overslept, !.sleeps = @ + 1]

\* update_state has left its loop with Ok(()).
AfterDrain(w, s, spent, overslept) ==
    IF w.op = "wait_for" THEN WaitDecision(w, Condition(w.condition, s), spent, overslept)
    ELSE Done([w EXCEPT !.elapsed = @ + spent], Ok)

----------------------------------------------------------------------------
(* TestTerminal (src/src/pty.rs) and the construction of the harness *)

OkV(v) == [ok |-> TRUE, value |-> v]

InvalidDimensions(width, height) ==
    [variant |-> "InvalidDimensions", width |-> width, height |-> height]
ProcessAlreadyRunning == [variant |-> "ProcessAlreadyRunning"]
NoProcessRunning == [variant |-> "NoProcessRunning"]
SpawnFailed == [variant |-> "SpawnFailed", text |-> "No such file or directory"]
\* The PTY system refuses (anyhow::Error, converted to TermTestError::Pty).
PtyRefusal == [variant |-> "Pty", kind |-> "None", text |-> "pty system call failed"]
\* child.wait() fails: io::Error of kind Other.
WaitFailure == [variant |-> "Io", kind |-> "Other", text |-> "wait failed"]

\* The child process a terminal holds: still running, or exited.
Child(exited) == [exited |-> exited]

\* A TestTerminal: its PTY pair is open; child is None or Some(Child(..)).
\* waiting is the child a call of wait has taken and is blocked on; spawned
\* says that a process has been started on the PTY (it, or a process it has
\* started, may run whatever has become of the child); typed holds the bytes
\* written to the master that the PTY has not processed yet; echo is the
\* ECHO mode of the PTY, on when the PTY is opened.
TestTerminal(child) ==
    [made |-> TRUE, child |-> child, waiting |-> None, spawned |-> FALSE,
     typed |-> << >>, echo |-> TRUE]
\* No terminal has been constructed.
NoTerminal ==
    [made |-> FALSE, child |-> None, waiting |-> None, spawned |-> FALSE,
     typed |-> << >>, echo |-> TRUE]
\* No ScreenState has been constructed.
NoState == [made |-> FALSE]

\* TestTerminal::new that opens a PTY of any size.
TestTerminal_new_Unchecked(width, height, ptyOk) ==
    IF ptyOk THEN OkV(TestTerminal(None)) ELSE Err(PtyRefusal)

\* TestTerminal::new: zero dimensions are rejected before the PTY is opened;
\* openpty may fail; the new terminal holds no child.
TestTerminal_new(width, height, ptyOk) ==
    IF width = 0 \/ height = 0 THEN Err(InvalidDimensions(width, height))
    ELSE IF ptyOk THEN OkV(TestTerminal(None))
    ELSE Err(PtyRefusal)

\* TuiTestHarness::new: TestTerminal::new(width, height)?, then
\* ScreenState::new(width, height), which checks nothing.
TuiTestHarness_new(width, height, ptyOk) ==
    LET t == TestTerminal_new(width, height, ptyOk)
    IN  IF t.ok
        THEN OkV([terminal |-> t.value, state |-> ScreenState_new(width, height)])
        ELSE t

\* spawn that attaches the new child in place of one that has exited.
spawn_Replace(term, spawnOk) ==
    IF term.child.some /\ ~ term.child.value.exited
    THEN [result |-> Err(ProcessAlreadyRunning), terminal |-> term]
    ELSE IF spawnOk
    THEN [result |-> Ok,
          terminal |-> [term EXCEPT !.child = Some(Child(FALSE)), !.spawned = TRUE]]
    ELSE [result |-> Err(SpawnFailed), terminal |-> term]

\* TestTerminal::spawn: refused while a child is held; a command that cannot
\* be started leaves the terminal as it was; otherwise the child is attached.
spawn(term, spawnOk) ==
    IF term.child.some
    THEN [result |-> Err(ProcessAlreadyRunning), terminal |-> term]
    ELSE IF spawnOk
    THEN [result |-> Ok,
          terminal |-> [term EXCEPT !.child = Some(Child(FALSE)), !.spawned = TRUE]]
    ELSE [result |-> Err(SpawnFailed), terminal |-> term]

\* TestTerminal::is_running: child.try_wait().ok().flatten().is_none() for
\* a held child (try_wait gives Ok(Some(status)) for an exited child,
\* Ok(None) for a running one, and its error is dropped by ok()), false
\* without a child.
is_running(term, tryWaitOk) ==
    IF term.child.some
    THEN IF tryWaitOk THEN ~ term.child.value.exited ELSE TRUE
    ELSE FALSE

\* TestTerminal::wait, first statement: self.child.take().  The child taken
\* is held by the call alone.
child_take(term) == [term EXCEPT !.child = None, !.waiting = term.child]

\* wait that puts the child back when child.wait() fails.
TestTerminal_wait_KeepOnError(term, waitOk) ==
    IF term.waiting.some
    THEN IF waitOk
         THEN [result |-> OkV("ExitStatus"), terminal |-> [term EXCEPT !.waiting = None]]
         ELSE [result |-> Err(WaitFailure),
               terminal |-> [term EXCEPT !.waiting = None, !.child = term.waiting]]
    ELSE [result |-> Err(NoProcessRunning), terminal |-> term]

\* TestTerminal::wait, the return: with no child taken, NoProcessRunning;
\* else the outcome of child.wait() (Ok once the child has exited) with its
\* error mapped to Io.  The handle is dropped either way.
TestTerminal_wait(term, waitOk) ==
    IF term.waiting.some
    THEN [result |-> IF waitOk THEN OkV("ExitStatus") ELSE Err(WaitFailure),
          terminal |-> [term EXCEPT !.waiting = None]]
    ELSE [result |-> Err(NoProcessRunning), terminal |-> term]

\* The echo of the PTY for one byte written to the master: a newline comes
\* back as carriage return and line feed, a printable character as itself.
\* (Texts are made of printable characters and newlines.)
EchoByte(b) == IF b = CRLF[2] THEN CRLF ELSE << b >>

RECURSIVE Echo(_)
Echo(data) == IF data = << >> THEN << >> ELSE EchoByte(Head(data)) \o Echo(Tail(data))

\* What a call of TestTerminal::write can meet: take_writer() fails; the
\* write of the writer fails (an error of the system, or a PTY that takes
\* nothing now); the writer accepts the first n bytes.
WriteOutcomes(data) ==
    { [kind |-> "NoWriter"] }
        \cup { [kind |-> "Err", error |-> e] : e \in {IoFailure, WouldBlockOs} }
        \cup { [kind |-> "Ok", n |-> n] :
                    n \in IF data = << >> THEN {0} ELSE 1 .. Len(data) }

\* TestTerminal::write: take_writer()?, then Ok(writer.write(data)?).  The
\* bytes accepted are with the PTY.
write(term, data, outcome) ==
    IF outcome.kind = "NoWriter" THEN [result |-> Err(PtyRefusal), terminal |-> term]
    ELSE IF outcome.kind = "Err" THEN [result |-> Err(outcome.error), terminal |-> term]
    ELSE [result |-> OkV(outcome.n),
          terminal |-> [term EXCEPT !.typed = @ \o SubSeq(data, 1, outcome.n)]]

----------------------------------------------------------------------------
(* Harness operations *)

Init ==
    /\ state = ScreenState_new(ScreenW, ScreenH)
    /\ ptyBuf = << >>
    /\ nWrites = 0
    /\ fed = << >>
    /\ lastN = 0
    /\ capture = SixelCapture_new
    /\ lastCall = NoCall
    /\ overflowChecks = TRUE
    /\ wait = WaitIdle
    /\ terminal = TestTerminal(None)

\* The program under test writes a piece of output to the PTY.
ChildWrite(tok) ==
    /\ nWrites < MaxWrites
    /\ ptyBuf' = ptyBuf \o tok
    /\ nWrites' = nWrites + 1
    /\ UNCHANGED << state, fed, lastN, capture, lastCall, overflowChecks, wait, terminal >>

\* The PTY processes the bytes written to the master: with ECHO on, their
\* echo becomes readable.
PtyEchoes ==
    /\ terminal.typed # << >>
    /\ ptyBuf' = ptyBuf \o (IF terminal.echo THEN Echo(terminal.typed) ELSE << >>)
    /\ terminal' = [terminal EXCEPT !.typed = << >>]
    /\ UNCHANGED << state, nWrites, fed, lastN, capture, lastCall, overflowChecks, wait >>

\* One read of n bytes from the PTY, fed to the ScreenState
\* (update_state: Ok(n) => self.state.feed(&buf[..n])); MaxChunk stands for
\* the size of the read buffer.
ReadFeed(n) ==
    /\ n \in 1 .. Min(Len(ptyBuf), MaxChunk)
    /\ state' = feed(state, SubSeq(ptyBuf, 1, n))
    /\ ptyBuf' = SubSeq(ptyBuf, n + 1, Len(ptyBuf))
    /\ fed' = fed \o SubSeq(ptyBuf, 1, n)
    /\ lastN' = n
    /\ UNCHANGED << nWrites, capture, lastCall, overflowChecks, wait, terminal >>

\* TestTerminal::resize: zero dimensions are rejected, the PTY may refuse.
TerminalResize(width, height, ptyOk) ==
    IF width = 0 \/ height = 0 THEN "InvalidDimensions"
    ELSE IF ptyOk THEN "Ok" ELSE "Pty"

\* TuiTestHarness::resize: on success the ScreenState is replaced by a fresh one.
Resize(width, height, ptyOk) ==
    LET r == TerminalResize(width, height, ptyOk)
    IN  /\ IF r = "Ok"
           THEN /\ state' = ScreenState_new(width, height)
                /\ fed' = << >>
                /\ lastN' = 0
           ELSE UNCHANGED << state, fed, lastN >>
        /\ UNCHANGED << ptyBuf, nWrites, capture, lastCall, overflowChecks, wait, terminal >>

Next ==
    \/ \E tok \in Tokens : ChildWrite(tok)
    \/ \E n \in 1 .. MaxChunk : ReadFeed(n)
    \/ \E w \in Widths, h \in Heights, ptyOk \in BOOLEAN : Resize(w, h, ptyOk)

Spec == Init /\ [][Next]_vars

\* The program under test has written one of Streams; the harness reads it in
\* chunks of any size.
InitSixel ==
    /\ state = ScreenState_new(ScreenW, ScreenH)
    /\ ptyBuf \in Streams
    /\ nWrites = MaxWrites
    /\ fed = << >>
    /\ lastN = 0
    /\ capture = SixelCapture_new
    /\ lastCall = NoCall
    /\ overflowChecks = TRUE
    /\ wait = WaitIdle
    /\ terminal = TestTerminal(None)

NextSixel == \E n \in 1 .. MaxChunk : ReadFeed(n)

SpecSixel == InitSixel /\ [][NextSixel]_vars

----------------------------------------------------------------------------
(* Calls of the geometry operations *)

\* Coordinates and sizes the rectangles are drawn from: zero, the values of
\* the unit tests, and the largest u16.
GeoVals == {0, 5, 10, U16Max}
Rects == GeoVals \X GeoVals \X GeoVals \X GeoVals

\* A sequence with the given bounds (as the tests build one).
SeqOf(b) == SixelSequence_new(<< >>, << b[1], b[2] >>, b)

\* The rectangles a test is about to pass: the bounds of a sequence and an area.
Args(b, a) == [op |-> "args", bounds |-> b, area |-> a]

\* seq.is_within(area) for a sequence with the chosen bounds.
CallIsWithin ==
    /\ lastCall.op # "none"
    /\ lastCall' = [op |-> "is_within", bounds |-> lastCall.bounds,
                    area |-> lastCall.area,
                    result |-> is_within(SeqOf(lastCall.bounds), lastCall.area)]
    /\ UNCHANGED << state, ptyBuf, nWrites, fed, lastN, capture, overflowChecks, wait, terminal >>

\* seq.overlaps(area) for a sequence with the chosen bounds.
CallOverlaps ==
    /\ lastCall.op # "none"
    /\ lastCall' = [op |-> "overlaps", bounds |-> lastCall.bounds,
                    area |-> lastCall.area,
                    result |-> overlaps(SeqOf(lastCall.bounds), lastCall.area)]
    /\ UNCHANGED << state, ptyBuf, nWrites, fed, lastN, capture, overflowChecks, wait, terminal >>

\* The library is built with or without overflow checks; the test has chosen
\* two rectangles.
InitGeom ==
    /\ state = ScreenState_new(ScreenW, ScreenH)
    /\ ptyBuf = << >>
    /\ nWrites = 0
    /\ fed = << >>
    /\ lastN = 0
    /\ capture = SixelCapture_new
    /\ lastCall \in { Args(b, a) : b \in Rects, a \in Rects }
    /\ overflowChecks \in BOOLEAN
    /\ wait = WaitIdle
    /\ terminal = TestTerminal(None)

NextGeom ==
    \/ CallIsWithin
    \/ CallOverlaps

SpecGeom == InitGeom /\ [][NextGeom]_vars

----------------------------------------------------------------------------
(* Calls of the capture operations *)

\* test_sixel_bounds_validation: ESC[10;40H, a 200x100 Sixel.
BoundsTestStream ==
    PlacedSixel(<< 10, 40 >>, Raster4(1, 1, 200, 100), << HASH, D0, TILDE >>)

\* test_harness_assert_sixel_within_bounds: ESC[15;30H, a 200x100 Sixel.
HarnessTestStream ==
    PlacedSixel(<< 15, 30 >>, Raster4(1, 1, 200, 100), << HASH, D0, TILDE >>)

\* Two sequences, as test_multiple_sixel_sequences.
TwoSeqStream ==
    PlacedSixel(<< 10, 10 >>, Raster4(1, 1, 200, 150), << HASH, TILDE >>)
        \o PlacedSixel(<< 20, 60 >>, Raster2(300, 200), << TILDE >>)

CaptureStreams ==
    {BoundsTestStream, HarnessTestStream, TwoSeqStream}

\* The areas the tests validate against (assert_all_within): the preview
\* area, the full screen, a small area.
CaptureAreas ==
    { << 5, 30, 70, 25 >>, << 0, 0, 100, 40 >>, << 0, 0, 20, 10 >> }

\* The area test_sixel_bounds_validation asks sequences_in_area and
\* sequences_outside_area about: the preview area.
PreviewAreas == { << 5, 30, 70, 25 >> }

\* let capture = SixelCapture::from_screen_state(&screen)
TakeCapture(cellPx) ==
    /\ capture' = from_screen_state(state, cellPx)
    /\ lastCall' = [op |-> "from_screen_state"]
    /\ UNCHANGED << state, ptyBuf, nWrites, fed, lastN, overflowChecks, wait, terminal >>

\* A query on the capture; the capture and the ScreenState are borrowed
\* immutably.
Query(call) ==
    /\ lastCall' = call
    /\ UNCHANGED << state, ptyBuf, nWrites, fed, lastN, capture, overflowChecks, wait, terminal >>

CallSequences == Query([op |-> "sequences", result |-> sequences(capture)])

CallIsEmpty == Query([op |-> "is_empty", result |-> is_empty(capture)])

CallInArea(area) ==
    Query([op |-> "sequences_in_area", area |-> area,
           result |-> sequences_in_area(capture, area)])

CallOutsideArea(area) ==
    Query([op |-> "sequences_outside_area", area |-> area,
           result |-> sequences_outside_area(capture, area)])

CallAssertAllWithin(area) ==
    Query([op |-> "assert_all_within", area |-> area,
           result |-> assert_all_within(capture, area)])

\* capture.differs_from(&SixelCapture::from_screen_state(&screen))
CallDiffersFrom(cellPx) ==
    Query([op |-> "differs_from",
           result |-> differs_from(capture, from_screen_state(state, cellPx))])

\* The program under test has written one of CaptureStreams; the harness
\* reads it in chunks while the test takes and queries captures.  No sum that
\* is_within computes here comes near the end of u16 (a position on the
\* screen plus a size in cells), so the build's overflow checks play no part.
InitCapture ==
    /\ state = ScreenState_new(ScreenW, ScreenH)
    /\ ptyBuf \in CaptureStreams
    /\ nWrites = MaxWrites
    /\ fed = << >>
    /\ lastN = 0
    /\ capture = SixelCapture_new
    /\ lastCall = NoCall
    /\ overflowChecks = TRUE
    /\ wait = WaitIdle
    /\ terminal = TestTerminal(None)

NextCapture ==
    \/ \E n \in 1 .. MaxChunk : ReadFeed(n)
    \/ \E w \in Widths, h \in Heights, ptyOk \in BOOLEAN : Resize(w, h, ptyOk)
    \/ \E cellPx \in CellSizes : TakeCapture(cellPx)
    \/ CallSequences
    \/ CallIsEmpty
    \/ \E area \in PreviewAreas : CallInArea(area)
    \/ \E area \in PreviewAreas : CallOutsideArea(area)
    \/ \E area \in CaptureAreas : CallAssertAllWithin(area)
    \/ \E cellPx \in CellSizes : CallDiffersFrom(cellPx)

SpecCapture == InitCapture /\ [][NextCapture]_vars

----------------------------------------------------------------------------
(* Queries on captures built directly from sequences *)

\* The sequences of the unit tests (test_sixel_capture_filtering), the same
\* rectangle with another payload, a 200x100 sequence, and a sequence whose
\* height is the largest u16.
FilterSeqs ==
    { SixelSequence_new(<< >>, << 5, 5 >>, << 5, 5, 10, 10 >>),
      SixelSequence_new(<< TILDE >>, << 5, 5 >>, << 5, 5, 10, 10 >>),
      SixelSequence_new(<< >>, << 20, 20 >>, << 20, 20, 10, 10 >>),
      SixelSequence_new(<< >>, << 9, 39 >>, << 9, 39, 200, 100 >>),
      SixelSequence_new(<< >>, << 5, 5 >>, << 5, 5, 10, U16Max >>) }

\* capture.sequences.push(...) up to MaxSeqs times on SixelCapture::new().
FilterCaptures ==
    { [sequences |-> qs] : qs \in UNION { [1 .. k -> FilterSeqs] : k \in 0 .. MaxSeqs } }

FilterAreas ==
    { << 0, 0, 15, 15 >>, << 0, 0, 20, 20 >>, << 0, 0, 100, 40 >>, << 0, 0, 300, 200 >> }

\* capture.differs_from(&other)
CallDiffersFromOther(other) ==
    Query([op |-> "differs_from", other |-> other,
           result |-> differs_from(capture, other)])

InitFilter ==
    /\ state = ScreenState_new(ScreenW, ScreenH)
    /\ ptyBuf = << >>
    /\ nWrites = 0
    /\ fed = << >>
    /\ lastN = 0
    /\ capture \in FilterCaptures
    /\ lastCall = NoCall
    /\ overflowChecks \in BOOLEAN
    /\ wait = WaitIdle
    /\ terminal = TestTerminal(None)

NextFilter ==
    \/ CallSequences
    \/ CallIsEmpty
    \/ \E area \in FilterAreas : CallInArea(area)
    \/ \E area \in FilterAreas : CallOutsideArea(area)
    \/ \E area \in FilterAreas : CallAssertAllWithin(area)
    \/ \E other \in FilterCaptures : CallDiffersFromOther(other)

SpecFilter == InitFilter /\ [][NextFilter]_vars

----------------------------------------------------------------------------
(* The harness thread in update_state / wait_for *)

\* Configured timeouts and poll intervals, in microseconds: an immediate
\* timeout, whole milliseconds, and a timeout with a fraction of a
\* millisecond.  (A zero poll interval makes the loop spin; the time it then
\* takes is not counted here.)
Timeouts == {0, 2 * MicrosPerMilli, 2 * MicrosPerMilli + 500}
PollIntervals == {MicrosPerMilli, MicrosPerMilli + 500}

\* What the program under test writes while the harness waits.
WaitTokens == { Cup(2, 3), Sixel(<< >>, << TILDE >>) }

NoResult == [ok |-> FALSE, error |-> [variant |-> "None"]]
NoRead == [kind |-> "None"]

\* harness.with_timeout(timeout).with_poll_interval(poll).wait_for(condition)
StartWaitFor(timeout, poll, cond) ==
    /\ wait.pc = "idle"
    /\ wait' = [pc |-> "reading", op |-> "wait_for", timeout |-> timeout,
                poll_interval |-> poll, condition |-> cond, elapsed |-> 0,
                evals |-> 0, sleeps |-> 0, lastRead |-> NoRead, result |-> NoResult]
    /\ UNCHANGED << state, ptyBuf, nWrites, fed, lastN, capture, lastCall, overflowChecks, terminal >>

\* harness.update_state()
StartUpdateState ==
    /\ wait.pc = "idle"
    /\ wait' = [pc |-> "reading", op |-> "update_state", timeout |-> 0,
                poll_interval |-> 0, condition |-> "never", elapsed |-> 0,
                evals |-> 0, sleeps |-> 0, lastRead |-> NoRead, result |-> NoResult]
    /\ UNCHANGED << state, ptyBuf, nWrites, fed, lastN, capture, lastCall, overflowChecks, terminal >>

\* What the test types: "hi", and "ls" with a newline.
SendTexts == { << 104, 105 >>, << 108, 115, 10 >> }

\* harness.send_text(text): self.terminal.write(text.as_bytes())?, then
\* self.update_state()?.
SendText(text, outcome) ==
    /\ wait.pc = "idle"
    /\ nWrites < MaxWrites
    /\ outcome \in WriteOutcomes(text)
    /\ LET out == write(terminal, text, outcome)
           w == [pc |-> "reading", op |-> "send_text", timeout |-> 0,
                 poll_interval |-> 0, condition |-> "never", elapsed |-> 0,
                 evals |-> 0, sleeps |-> 0, lastRead |-> NoRead, result |-> NoResult]
       IN  /\ terminal' = out.terminal
           /\ wait' = IF out.result.ok THEN w ELSE Done(w, Err(out.result.error))
    /\ nWrites' = nWrites + 1
    /\ UNCHANGED << state, ptyBuf, fed, lastN, capture, lastCall, overflowChecks >>

\* One turn of the loop of update_state: self.terminal.read(&mut buf) and
\* the arm its outcome selects.  When the loop is left inside wait_for, the
\* rest of the iteration of wait_for follows; spent is the time the drain
\* and the evaluation have taken, accounted for at the read that ends the
\* drain, overslept the excess of the sleep.
WaitRead(outcome, spent, overslept) ==
    /\ wait.pc = "reading"
    /\ outcome \in ReadOutcomes(ptyBuf)
    /\ ReadArm(outcome) = "feed" => spent = 0 /\ overslept = 0
    /\ LET arm == ReadArm(outcome)
           w == [wait EXCEPT !.lastRead = IF outcome.kind = "Data"
                                          THEN [kind |-> "Data"] ELSE outcome]
       IN  IF arm = "feed"
           THEN /\ state' = feed(state, SubSeq(ptyBuf, 1, outcome.n))
                /\ ptyBuf' = SubSeq(ptyBuf, outcome.n + 1, Len(ptyBuf))
                /\ fed' = fed \o SubSeq(ptyBuf, 1, outcome.n)
                /\ lastN' = outcome.n
                /\ wait' = w
           ELSE /\ wait' = IF arm = "break" THEN AfterDrain(w, state, spent, overslept)
                           ELSE Done([w EXCEPT !.elapsed = @ + spent], Err(outcome.error))
                /\ UNCHANGED << state, ptyBuf, fed, lastN >>
    /\ UNCHANGED << nWrites, capture, lastCall, overflowChecks, terminal >>

InitWait ==
    /\ state = ScreenState_new(ScreenW, ScreenH)
    /\ ptyBuf = << >>
    /\ nWrites = 0
    /\ fed = << >>
    /\ lastN = 0
    /\ capture = SixelCapture_new
    /\ lastCall = NoCall
    /\ overflowChecks = TRUE
    /\ wait = WaitIdle
    /\ terminal = TestTerminal(None)

NextWait ==
    \/ \E tok \in WaitTokens : ChildWrite(tok)
    \/ \E t \in Timeouts, p \in PollIntervals, c \in Conditions : StartWaitFor(t, p, c)
    \/ StartUpdateState
    \/ \E text \in SendTexts :
          \E outcome \in WriteOutcomes(text) : SendText(text, outcome)
    \/ PtyEchoes
    \/ \E n \in 1 .. MaxChunk : WaitRead(ReadData(n), 0, 0)
    \/ \E d \in Delays, o \in Oversleeps : WaitRead(ReadZero, d, o)
    \/ \E e \in WouldBlocks \cup Failures, d \in Delays, o \in Oversleeps :
           WaitRead(ReadErr(e), d, o)

SpecWait == InitWait /\ [][NextWait]_vars

----------------------------------------------------------------------------
(* Text queries on the ScreenState *)

\* What the program under test prints: "Hello" (test_text_at); "H" in the
\* third column of the first row; a two-byte character followed by "H"; "H"
\* and the two-byte character on the second row; "H" followed by a
\* continuation byte that continues nothing.
Hello == << 72, 101, 108, 108, 111 >>
EAcute == << 195, 169 >>
TextStreams ==
    { Hello,
      Cup(1, 3) \o << CH >>,
      EAcute \o << CH >>,
      Cup(2, 1) \o << CH >> \o EAcute,
      << CH, EAcute[2] >> }
Texts == { Hello, << CH >>, EAcute }

\* Rows and columns asked for: on the screen, the first ones off it, and
\* the largest u16.
TextRows == {0, 1, ScreenH, U16Max}
TextCols == {0, 1, 2, ScreenW}

CallRowContents(row) ==
    Query([op |-> "row_contents", row |-> row, result |-> row_contents(state, row)])
CallCharAt(row, col) ==
    Query([op |-> "char_at", row |-> row, col |-> col, result |-> char_at(state, row, col)])
CallTextAt(row, col, text) ==
    Query([op |-> "text_at", row |-> row, col |-> col, text |-> text,
           result |-> text_at(state, row, col, text)])

InitText ==
    /\ state \in { [ScreenState_new(ScreenW, ScreenH) EXCEPT !.vt = v] : v \in VtBuilds }
    /\ ptyBuf \in TextStreams
    /\ nWrites = 1
    /\ fed = << >>
    /\ lastN = 0
    /\ capture = SixelCapture_new
    /\ lastCall = NoCall
    /\ overflowChecks = TRUE
    /\ wait = WaitIdle
    /\ terminal = TestTerminal(None)

NextText ==
    \/ \E n \in 1 .. MaxChunk : ReadFeed(n)
    \/ \E row \in TextRows : CallRowContents(row)
    \/ \E row \in TextRows, col \in TextCols : CallCharAt(row, col)
    \/ \E row \in TextRows, col \in TextCols, text \in Texts : CallTextAt(row, col, text)

SpecText == InitText /\ [][NextText]_vars

----------------------------------------------------------------------------
(* Construction, child process and resize of the harness *)

\* Dimensions the tests construct with and resize to: zero, and one size
\* each.
LifeWidths == {0, ScreenW}
ResizeWidths == {0, 40}
LifeHeights == {0, ScreenH}

\* What the child writes once it runs.
LifeTokens == { Sixel(<< >>, << TILDE >>) }

\* What the test types: "h".
LifeTexts == { << 104 >> }

\* The TermTestError of a refused TestTerminal::resize.
ResizeResult(r, width, height) ==
    IF r = "Ok" THEN Ok
    ELSE IF r = "InvalidDimensions" THEN Err(InvalidDimensions(width, height))
    ELSE Err(PtyRefusal)

\* TuiTestHarness::resize that adjusts the size of the ScreenState it has.
harness_resize_InPlace(s, width, height, ptyOk) ==
    LET r == TerminalResize(width, height, ptyOk)
    IN  [result |-> ResizeResult(r, width, height),
         state |-> IF r = "Ok" THEN [s EXCEPT !.width = width, !.height = height]
                   ELSE s]

\* TuiTestHarness::resize: self.terminal.resize(width, height)?, then
\* self.state = ScreenState::new(width, height).
harness_resize(s, width, height, ptyOk) ==
    LET r == TerminalResize(width, height, ptyOk)
    IN  [result |-> ResizeResult(r, width, height),
         state |-> IF r = "Ok" THEN ScreenState_new(width, height) ELSE s]

\* TuiTestHarness::new(width, height)
HarnessNew(width, height, ptyOk) ==
    /\ ~ terminal.made
    /\ LET h == TuiTestHarness_new(width, height, ptyOk)
       IN  /\ lastCall' = [op |-> "new", width |-> width, height |-> height,
                           result |-> IF h.ok THEN Ok ELSE h]
           /\ IF h.ok
              THEN terminal' = h.value.terminal /\ state' = h.value.state
              ELSE UNCHANGED << terminal, state >>
    /\ UNCHANGED << ptyBuf, nWrites, fed, lastN, capture, overflowChecks, wait >>

\* harness.spawn(cmd)
CallSpawn(spawnOk) ==
    /\ terminal.made
    /\ ~ terminal.waiting.some
    /\ LET out == spawn(terminal, spawnOk)
       IN  /\ lastCall' = [op |-> "spawn", result |-> out.result]
           /\ terminal' = out.terminal
    /\ UNCHANGED << state, ptyBuf, nWrites, fed, lastN, capture, overflowChecks, wait >>

\* A call of the harness is blocked in child.wait().
Blocked == terminal.waiting.some

\* The process the terminal has spawned last still runs, held by the
\* terminal or by a blocked wait.
HeldRuns ==
    \/ terminal.child.some /\ ~ terminal.child.value.exited
    \/ terminal.waiting.some /\ ~ terminal.waiting.value.exited

\* The child process exits.
ChildExits ==
    /\ HeldRuns
    /\ terminal' = IF terminal.child.some
                   THEN [terminal EXCEPT !.child = Some(Child(TRUE))]
                   ELSE [terminal EXCEPT !.waiting = Some(Child(TRUE))]
    /\ UNCHANGED << state, ptyBuf, nWrites, fed, lastN, capture, lastCall,
                    overflowChecks, wait >>

\* A process on the PTY writes a piece of output: the child, or a process
\* the child has started, which may outlive it.
ChildOutput(tok) ==
    /\ terminal.spawned
    /\ ChildWrite(tok)

\* A process on the PTY switches the ECHO mode (tcsetattr).
ChildSetsEcho(on) ==
    /\ terminal.spawned
    /\ terminal.echo # on
    /\ terminal' = [terminal EXCEPT !.echo = on]
    /\ UNCHANGED << state, ptyBuf, nWrites, fed, lastN, capture, lastCall,
                    overflowChecks, wait >>

\* terminal.write(data)
TerminalWrite(data, outcome) ==
    /\ terminal.made
    /\ ~ Blocked
    /\ nWrites < MaxWrites
    /\ outcome \in WriteOutcomes(data)
    /\ LET out == write(terminal, data, outcome)
       IN  /\ lastCall' = [op |-> "write", data |-> data, result |-> out.result]
           /\ terminal' = out.terminal
    /\ nWrites' = nWrites + 1
    /\ UNCHANGED << state, ptyBuf, fed, lastN, capture, overflowChecks, wait >>

\* harness.is_running()
CallIsRunning(tryWaitOk) ==
    /\ terminal.made
    /\ ~ Blocked
    /\ lastCall' = [op |-> "is_running", result |-> is_running(terminal, tryWaitOk)]
    /\ UNCHANGED << state, ptyBuf, nWrites, fed, lastN, capture, overflowChecks, wait,
                    terminal >>

\* The call of wait has not returned.
InWait == [ok |-> FALSE, error |-> [variant |-> "None"]]

\* harness.wait_exit() is called: TestTerminal::wait takes the child and
\* blocks in child.wait(); without a child it returns at once.
CallWaitExit ==
    /\ terminal.made
    /\ ~ Blocked
    /\ IF terminal.child.some
       THEN /\ terminal' = child_take(terminal)
            /\ lastCall' = [op |-> "wait", result |-> InWait]
       ELSE LET out == TestTerminal_wait(terminal, TRUE)
            IN  /\ lastCall' = [op |-> "wait", result |-> out.result]
                /\ terminal' = out.terminal
    /\ UNCHANGED << state, ptyBuf, nWrites, fed, lastN, capture, overflowChecks, wait >>

\* child.wait() returns, and with it harness.wait_exit(): successfully once
\* the child has exited, with an error at any time.
WaitExitReturns(waitOk) ==
    /\ Blocked
    /\ waitOk => terminal.waiting.value.exited
    /\ LET out == TestTerminal_wait(terminal, waitOk)
       IN  /\ lastCall' = [op |-> "wait", result |-> out.result]
           /\ terminal' = out.terminal
    /\ UNCHANGED << state, ptyBuf, nWrites, fed, lastN, capture, overflowChecks, wait >>

\* harness.resize(width, height)
CallResize(width, height, ptyOk) ==
    /\ terminal.made
    /\ ~ Blocked
    /\ LET out == harness_resize(state, width, height, ptyOk)
       IN  /\ lastCall' = [op |-> "resize", width |-> width, height |-> height,
                           result |-> out.result]
           /\ state' = out.state
           /\ IF out.result.ok
              THEN fed' = << >> /\ lastN' = 0
              ELSE UNCHANGED << fed, lastN >>
    /\ UNCHANGED << ptyBuf, nWrites, capture, overflowChecks, wait, terminal >>

\* Nothing has been constructed yet.
InitLife ==
    /\ state = NoState
    /\ ptyBuf = << >>
    /\ nWrites = 0
    /\ fed = << >>
    /\ lastN = 0
    /\ capture = SixelCapture_new
    /\ lastCall = NoCall
    /\ overflowChecks = TRUE
    /\ wait = WaitIdle
    /\ terminal = NoTerminal

NextLife ==
    \/ \E w \in LifeWidths, h \in LifeHeights, ptyOk \in BOOLEAN : HarnessNew(w, h, ptyOk)
    \/ \E spawnOk \in BOOLEAN : CallSpawn(spawnOk)
    \/ ChildExits
    \/ \E tok \in LifeTokens : ChildOutput(tok)
    \/ \E on \in BOOLEAN : ChildSetsEcho(on)
    \/ \E data \in LifeTexts :
          \E outcome \in WriteOutcomes(data) : TerminalWrite(data, outcome)
    \/ PtyEchoes
    \/ \E n \in 1 .. MaxChunk : terminal.made /\ ~ Blocked /\ ReadFeed(n)
    \/ \E tryWaitOk \in BOOLEAN : CallIsRunning(tryWaitOk)
    \/ CallWaitExit
    \/ \E waitOk \in BOOLEAN : WaitExitReturns(waitOk)
    \/ \E w \in ResizeWidths, h \in LifeHeights, ptyOk \in BOOLEAN : CallResize(w, h, ptyOk)

SpecLife == InitLife /\ [][NextLife]_vars

----------------------------------------------------------------------------
(* Properties *)

Regions == sixel_regions(state)
Fresh == ScreenState_new(state.width, state.height)

IsPrefix(a, b) == Len(a) <= Len(b) /\ SubSeq(b, 1, Len(a)) = a

\* Least index j >= i at which pat occurs in s, 0 if there is none.
FirstOcc(s, pat, i) ==
    LET occ == { j \in i .. (Len(s) - Len(pat) + 1) :
                    SubSeq(s, j, j + Len(pat) - 1) = pat }
    IN  IF occ = {} THEN 0 ELSE CHOOSE j \in occ : \A k \in occ : j <= k

RECURSIVE CompleteStarts(_, _)
\* The grammar of 4.3 read off the byte stream: the indices, from i on, of the
\* ESC of every introducer ESC P q that is followed by a terminator ESC \.
CompleteStarts(s, i) ==
    LET a == FirstOcc(s, Intro, i)
        t == IF a = 0 THEN 0 ELSE FirstOcc(s, ST, a + 3)
    IN  IF t = 0 THEN << >> ELSE << a >> \o CompleteStarts(s, t + 2)

\* Number of terminators ESC \ in a byte stream.
CountST(s) == Cardinality({ j \in 1 .. (Len(s) - 1) : s[j] = ESC /\ s[j + 1] = BSL })

OneRegion(row, col, w, h) ==
    /\ Len(Regions) = 1
    /\ Regions[1].start_row = row
    /\ Regions[1].start_col = col
    /\ Regions[1].width = w
    /\ Regions[1].height = h

\* C1: cursor addressing ESC[r;cH followed by one Sixel sequence with the
\* raster clause "Pa;Pb;Ph;Pv, fed to a fresh ScreenState, yields exactly one
\* region, at (r-1, c-1), of width Ph and height Pv.
C1_PositionAndSize ==
    \A pos \in Positions, f \in FourFields, pl \in Payloads :
        fed = PlacedSixel(pos, FourRaster(f), pl)
            => OneRegion(pos[1] - 1, pos[2] - 1, f[3], f[4])

C1_Witness ==
    /\ fed = PlacedSixel(<< 5, 10 >>, Raster4(1, 1, 100, 50), << HASH >>)
    /\ OneRegion(4, 9, 100, 50)

\* C2: however the bytes fed so far were split into feed calls, the region
\* list equals the one obtained by feeding them to a fresh ScreenState in a
\* single feed call.
C2_ChunkedEqualsWhole == Regions = sixel_regions(feed(Fresh, fed))

\* A region whose terminator was split between ESC and the backslash.
C2_Witness ==
    /\ Len(Regions) >= 1
    /\ lastN = 1
    /\ Len(fed) > MaxChunk
    /\ SubSeq(fed, Len(fed) - 1, Len(fed)) = ST

\* Region i has the start position and the dimensions of sequence q.
RegionIs(i, q) ==
    /\ Regions[i].start_row = q.pos[1] - 1
    /\ Regions[i].start_col = q.pos[2] - 1
    /\ Regions[i].width = q.w
    /\ Regions[i].height = q.h

\* C3: k complete sequences, each after its own cursor addressing, yield
\* exactly k regions, the i-th region being that of the i-th sequence.
C3_DetectionOrder ==
    \A qs \in SeqLists :
        fed = ConcatSeqs(qs, 1)
            => /\ Len(Regions) = Len(qs)
               /\ \A i \in 1 .. Len(qs) : RegionIs(i, qs[i])

C3_Witness ==
    /\ ptyBuf = << >>
    /\ Len(Regions) = 2
    /\ Regions[1].start_row = 9 /\ Regions[1].width = 200
    /\ Regions[2].start_row = 19 /\ Regions[2].width = 300

\* C4: a step either keeps the region list as a prefix of the new list, or
\* installs a freshly constructed ScreenState.
C4_AppendOnly ==
    [][ \/ IsPrefix(state.regions, state'.regions)
        \/ state' = ScreenState_new(state'.width, state'.height) ]_vars

\* Two regions, the second appended by a later feed call than the first.
C4_Witness ==
    /\ Len(Regions) = 2
    /\ Len(CompleteStarts(fed, 1)) = 2
    /\ lastN >= 1

\* C5: the start position of every region is the cursor position the
\* emulator had reached just before the ESC of that region's introducer.
C5_StartIsCursorAtIntroducer ==
    LET starts == CompleteStarts(fed, 1)
    IN  \A k \in 1 .. Len(Regions) :
            /\ k <= Len(starts)
            /\ << Regions[k].start_row, Regions[k].start_col >>
                 = cursor_position(feed(Fresh, SubSeq(fed, 1, starts[k] - 1)))

\* A region recorded at a position the cursor has since left, through cursor
\* addressing inside the sequence's own payload.
C5_Witness ==
    /\ Len(Regions) = 1
    /\ << Regions[1].start_row, Regions[1].start_col >> = << 1, 2 >>
    /\ cursor_position(state) = << 3, 4 >>

\* C6 as stated: a sequence without raster clause yields exactly one region
\* with width 0, height 0 and non-empty data, whatever follows ESC P q.
C6_AsStated ==
    \A pos \in Positions, pl \in Payloads :
        fed = PlacedSixel(pos, << >>, pl)
            => /\ OneRegion(pos[1] - 1, pos[2] - 1, 0, 0)
               /\ Regions[1].data # << >>

\* C6: a sequence without raster clause yields exactly one region with width
\* 0 and height 0 whose data are the bytes between ESC P q and the
\* terminator: non-empty when there is such a byte, empty when the terminator
\* follows ESC P q at once.
C6_NoRasterClause ==
    \A pos \in Positions, pl \in Payloads :
        fed = PlacedSixel(pos, << >>, pl)
            => /\ OneRegion(pos[1] - 1, pos[2] - 1, 0, 0)
               /\ Regions[1].data = pl

C6_Witness ==
    /\ fed = PlacedSixel(<< 5, 10 >>, << >>, << HASH, D0 + 1, ESC, TILDE >>)
    /\ Len(Regions) = 1
    /\ Regions[1].width = 0 /\ Regions[1].height = 0
    /\ Len(Regions[1].data) = 4

\* C7: the four-field clause gives width and height from its last two
\* fields, the two-field clause from its two fields.
C7_RasterForms ==
    \A pos \in Positions, pl \in Payloads :
        /\ \A f \in FourFields :
              fed = PlacedSixel(pos, FourRaster(f), pl)
                  => Len(Regions) = 1 /\ Regions[1].width = f[3]
                                      /\ Regions[1].height = f[4]
        /\ \A f \in TwoFields :
              fed = PlacedSixel(pos, TwoRaster(f), pl)
                  => Len(Regions) = 1 /\ Regions[1].width = f[1]
                                      /\ Regions[1].height = f[2]

C7_Witness ==
    /\ fed = PlacedSixel(<< 1, 1 >>, Raster2(400, 300), << HASH >>)
    /\ Len(Regions) = 1
    /\ Regions[1].width = 400 /\ Regions[1].height = 300

\* C8 as stated: a non-digit byte leading or trailing the raster clause aborts
\* raster parsing, so every sequence whose clause is followed by a non-digit
\* payload byte is captured with width 0 and height 0.
C8_AsStated ==
    \A pos \in Positions, r \in Rasters \ { << >> } :
        fed = PlacedSixel(pos, r, << HASH >>)
            => OneRegion(pos[1] - 1, pos[2] - 1, 0, 0)

\* C8: a byte other than a digit where the digits of a field are expected
\* (after the opening quote or after a semicolon) aborts raster parsing: the
\* extractor is in InPayload with width 0 and height 0 as soon as that byte is
\* fed, and the sequence is captured with width 0 and height 0 at its
\* terminator; a non-digit byte after the last digit of a two- or four-field
\* clause ends the clause with its width and height kept.
C8_EmptyFieldAborts ==
    \A pos \in Positions :
        /\ \A r \in EmptyFieldRasters :
              /\ \A pl \in Payloads :
                    fed = PlacedSixel(pos, r, pl)
                        => OneRegion(pos[1] - 1, pos[2] - 1, 0, 0)
              /\ fed = Cup(pos[1], pos[2]) \o Intro \o r \o << HASH >>
                    => /\ state.ex.phase = "InPayload"
                       /\ state.ex.width = 0 /\ state.ex.height = 0
                       /\ Regions = << >>
        /\ \A f \in FourFields :
              fed = Cup(pos[1], pos[2]) \o Intro \o FourRaster(f) \o << HASH >>
                    => /\ state.ex.phase = "InPayload"
                       /\ state.ex.width = f[3] /\ state.ex.height = f[4]

\* A clause whose third field is empty, captured without dimensions.
C8_Witness ==
    /\ fed = PlacedSixel(<< 5, 10 >>, Raster2(12, 3) \o << SEMI >>, << HASH >>)
    /\ OneRegion(4, 9, 0, 0)

\* C9: whatever has been fed, in whatever chunks and however malformed, the
\* feed calls have returned a ScreenState that answers every query: its size,
\* a cursor position on the grid, its regions, and, for every row, column and
\* text, row_contents, char_at and text_at without a failure.
C9_FeedNeverFails ==
    /\ size(state) = << ScreenW, ScreenH >>
    /\ cursor_position(state)[1] \in 0 .. (state.height - 1)
    /\ cursor_position(state)[2] \in 0 .. state.width
    /\ \A i \in 1 .. Len(Regions) :
          /\ Regions[i].start_row \in U16 /\ Regions[i].start_col \in U16
    /\ \A row \in TextRows :
          /\ Len(row_contents(state, row)) >= 0
          /\ \A col \in TextCols :
                /\ char_at(state, row, col) = None \/ char_at(state, row, col).some
                /\ \A text \in Texts : ~ text_at(state, row, col, text).panic

\* C10: no region without a completed sequence: the number of regions is at
\* most the number of introducers ESC P q in the bytes fed that are followed
\* by a terminator, and at most the number of terminators fed.
C10_OnlyAtTerminator ==
    /\ Len(Regions) <= Len(CompleteStarts(fed, 1))
    /\ Len(Regions) <= CountST(fed)

\* A terminator after a broken introducer: no region.
C10_Witness ==
    /\ fed = << ESC, CP, SEMI >> \o ST
    /\ Regions = << >>

----------------------------------------------------------------------------
(* Geometry claims, on the outcome of the last call (SpecGeom) *)

\* The inequalities of containment over the unbounded integers: b inside a.
ContainsZ(a, b) ==
    /\ b[1] >= a[1]
    /\ b[2] >= a[2]
    /\ b[1] + b[4] <= a[1] + a[4]
    /\ b[2] + b[3] <= a[2] + a[3]

\* The overlap test over the unbounded integers.
OverlapsZ(a, b) ==
    ~ \/ a[1] + a[4] <= b[1]
      \/ a[2] + a[3] <= b[2]
      \/ a[1] >= b[1] + b[4]
      \/ a[2] >= b[2] + b[3]

IsWithinCalled == lastCall.op = "is_within"
OverlapsCalled == lastCall.op = "overlaps"

\* C11: for a sequence with bounds b and every area a, is_within(a) returns
\* true exactly when b.row >= a.row, b.col >= a.col,
\* b.row + b.height <= a.row + a.height and b.col + b.width <= a.col + a.width.
C11_IsWithinIffInequalities ==
    IsWithinCalled =>
        /\ lastCall.result \in {"true", "false"}
        /\ (lastCall.result = "true") <=> ContainsZ(lastCall.area, lastCall.bounds)

\* C12: is_within and overlaps are total over all u16 inputs: the call never
\* aborts, and also when row + height or col + width exceeds 65535 it returns
\* the value of the inequalities over the unbounded integers (no sum is
\* reduced modulo 2^16).
C12_TotalWithoutOverflow ==
    /\ IsWithinCalled =>
          /\ lastCall.result # "panic"
          /\ (lastCall.result = "true") <=> ContainsZ(lastCall.area, lastCall.bounds)
    /\ OverlapsCalled =>
          /\ lastCall.result # "panic"
          /\ (lastCall.result = "true") <=> OverlapsZ(lastCall.bounds, lastCall.area)

\* C13: containment is reflexive: for every rectangle a, zero-sized ones
\* included, a sequence with bounds a is within area a.
C13_Reflexive ==
    (IsWithinCalled /\ lastCall.bounds = lastCall.area) => lastCall.result = "true"

Positive(r) == r[3] > 0 /\ r[4] > 0

\* C14: for rectangles a and b of positive width and height, if b is within
\* a then b overlaps a.
C14_WithinImpliesOverlaps ==
    (/\ IsWithinCalled
     /\ Positive(lastCall.bounds)
     /\ Positive(lastCall.area)
     /\ lastCall.result = "true")
        => overlaps(SeqOf(lastCall.bounds), lastCall.area) = "true"

\* C15: overlaps is symmetric: a sequence with bounds a overlaps area b
\* exactly when a sequence with bounds b overlaps area a (both calls return,
\* and return the same value).
C15_OverlapsSymmetric ==
    OverlapsCalled =>
        /\ lastCall.result \in {"true", "false"}
        /\ lastCall.result = overlaps(SeqOf(lastCall.area), lastCall.bounds)

\* Rectangles a and b that touch: one ends on an axis where the other begins.
Touch(a, b) ==
    \/ a[1] + a[4] = b[1]
    \/ a[2] + a[3] = b[2]
    \/ b[1] + b[4] = a[1]
    \/ b[2] + b[3] = a[2]

\* C16: rectangles that only touch along an edge or at a corner do not
\* overlap: whenever a.row + a.height = b.row or a.col + a.width = b.col (or
\* the mirrored cases) overlaps returns false; bounds (5,5,10,10) does not
\* overlap (0,0,5,5) but overlaps (10,10,10,10) and itself.
C16_TouchingDoNotOverlap ==
    OverlapsCalled =>
        /\ Touch(lastCall.bounds, lastCall.area) => lastCall.result = "false"
        /\ (lastCall.bounds = << 5, 5, 10, 10 >> /\ lastCall.area = << 0, 0, 5, 5 >>)
              => lastCall.result = "false"
        /\ (/\ lastCall.bounds = << 5, 5, 10, 10 >>
            /\ lastCall.area \in { << 10, 10, 10, 10 >>, << 5, 5, 10, 10 >> })
              => lastCall.result = "true"

\* The origin of b lies within the bounds of a.
OriginWithin(a, b) ==
    /\ a[1] <= b[1] /\ b[1] <= a[1] + a[4]
    /\ a[2] <= b[2] /\ b[2] <= a[2] + a[3]

\* C17: a rectangle b with zero width or zero height is within a exactly when
\* the origin (row, col) of b is within the bounds of a.
C17_DegenerateContainment ==
    (IsWithinCalled /\ (lastCall.bounds[3] = 0 \/ lastCall.bounds[4] = 0)) =>
        ((lastCall.result = "true") <=> OriginWithin(lastCall.area, lastCall.bounds))

----------------------------------------------------------------------------
(* Capture claims (SpecCapture) *)

\* The step is a call of from_screen_state on the current ScreenState.
CaptureStep ==
    lastCall'.op = "from_screen_state" /\ UNCHANGED << state, ptyBuf, fed, lastN >>

\* The capture cap holds one sequence per region of the ScreenState s, in
\* order, with the region's position and bytes and, as bounds, the region's
\* start position with its pixel width and height.
CaptureMatches(cap, s) ==
    /\ Len(cap.sequences) = Len(sixel_regions(s))
    /\ \A i \in 1 .. Len(cap.sequences) :
          LET q == cap.sequences[i]
              r == sixel_regions(s)[i]
          IN  /\ q.position = << r.start_row, r.start_col >>
              /\ q.bounds = << r.start_row, r.start_col, r.width, r.height >>
              /\ q.raw = r.data

BytesOfSequence(s, a) == SubSeq(s, a + 3, FirstOcc(s, ST, a + 3) - 1)

\* n cells of per pixels each are the cells that px pixels span.
Spans(n, per, px) == (n - 1) * per < px /\ px <= n * per

TestRaw == Raster4(1, 1, 200, 100) \o << HASH, D0, TILDE >>

\* The capture holds the one 200x100-pixel Sixel of a test, started at cell
\* pos.
TestCapture(pos) ==
    /\ Len(capture.sequences) = 1
    /\ capture.sequences[1].position = pos
    /\ capture.sequences[1].raw = TestRaw

PreviewArea == << 5, 30, 70, 25 >>
FullScreenArea == << 0, 0, 100, 40 >>
SmallArea == << 0, 0, 20, 10 >>

QueryOps == {"sequences", "is_empty", "sequences_in_area", "sequences_outside_area",
             "assert_all_within", "differs_from"}

\* What the operations of a capture answer about the preview area, and when
\* compared with an empty capture.
Answers(cap) ==
    << sequences(cap), is_empty(cap),
       sequences_in_area(cap, PreviewArea), sequences_outside_area(cap, PreviewArea),
       assert_all_within(cap, PreviewArea), differs_from(cap, SixelCapture_new) >>

----------------------------------------------------------------------------
(* Capture query claims (SpecFilter) *)

RECURSIVE Partitions(_, _, _, _)
\* Walking the sequences qs in order, each one is the next element of inn
\* when it is within area and the next element of out otherwise, and nothing
\* else is left in inn and out.
Partitions(qs, inn, out, area) ==
    IF qs = << >> THEN inn = << >> /\ out = << >>
    ELSE IF is_within(Head(qs), area) = "true"
         THEN inn # << >> /\ Head(inn) = Head(qs)
              /\ Partitions(Tail(qs), Tail(inn), out, area)
         ELSE out # << >> /\ Head(out) = Head(qs)
              /\ Partitions(Tail(qs), inn, Tail(out), area)

\* C21: for every capture and every area, sequences_in_area(area) and
\* sequences_outside_area(area) partition the sequences of the capture: each
\* sequence is in exactly one of the two results (in the first exactly when
\* is_within(area)), both results keep the capture order, and their lengths
\* add up to sequences().len().
C21_Partition ==
    lastCall.op \in {"sequences_in_area", "sequences_outside_area"} =>
        LET inn == sequences_in_area(capture, lastCall.area)
            out == sequences_outside_area(capture, lastCall.area)
        IN  /\ ~lastCall.result.panic
            /\ ~inn.panic /\ ~out.panic
            /\ Len(inn.value) + Len(out.value) = Len(sequences(capture))
            /\ Partitions(sequences(capture), inn.value, out.value, lastCall.area)

\* Every sequence of the capture lies within area (over the unbounded integers).
AllContained(cap, area) ==
    \A i \in 1 .. Len(cap.sequences) : ContainsZ(area, cap.sequences[i].bounds)

\* C22: assert_all_within(area) succeeds exactly when every sequence of the
\* capture is within area; it succeeds for every area on an empty capture and
\* returns a validation error as soon as one sequence is not fully contained.
C22_AssertIffAllWithin ==
    lastCall.op = "assert_all_within" =>
        /\ ~lastCall.result.panic
        /\ lastCall.result.value.ok <=> AllContained(capture, lastCall.area)
        /\ ~lastCall.result.value.ok => lastCall.result.value.error = "SixelValidation"

RECURSIVE OutsidePositions(_, _)
\* The positions of the sequences of qs that do not lie within area, in order.
OutsidePositions(qs, area) ==
    IF qs = << >> THEN << >>
    ELSE (IF ContainsZ(area, Head(qs).bounds) THEN << >> ELSE << Head(qs).position >>)
            \o OutsidePositions(Tail(qs), area)

\* C23: when assert_all_within(area) fails, the validation error lists
\* exactly the positions of the sequences that are not within area (all of
\* them, none of the contained ones, in capture order), with their count and
\* the area.
C23_ErrorListsOutside ==
    (/\ lastCall.op = "assert_all_within"
     /\ ~lastCall.result.panic
     /\ ~lastCall.result.value.ok) =>
        LET e == lastCall.result.value
        IN  /\ e.positions = OutsidePositions(sequences(capture), lastCall.area)
            /\ e.count = Len(e.positions)
            /\ e.area = lastCall.area

\* The two captures hold the same number of sequences, equal one by one in
\* position, bounds and raw payload.
ElementwiseEqual(c1, c2) ==
    /\ Len(c1.sequences) = Len(c2.sequences)
    /\ \A i \in 1 .. Len(c1.sequences) :
          /\ c1.sequences[i].position = c2.sequences[i].position
          /\ c1.sequences[i].bounds = c2.sequences[i].bounds
          /\ c1.sequences[i].raw = c2.sequences[i].raw

\* C24: differs_from(other) is true exactly when the two ordered sequence
\* lists are not element-wise equal in position, bounds and raw payload; it is
\* false for a capture compared with itself, gives the same answer with the
\* arguments exchanged, and is true for a capture with a sequence against an
\* empty one.
C24_DiffersFrom ==
    (lastCall.op = "differs_from" /\ "other" \in DOMAIN lastCall) =>
        /\ lastCall.result = ~ElementwiseEqual(capture, lastCall.other)
        /\ lastCall.result = differs_from(lastCall.other, capture)
        /\ lastCall.other = capture => lastCall.result = FALSE
        /\ (is_empty(lastCall.other) /\ ~is_empty(capture)) => lastCall.result = TRUE

\* Two captures of one sequence each, with different dimensions, differ.
C24_Witness ==
    /\ lastCall.op = "differs_from"
    /\ "other" \in DOMAIN lastCall
    /\ Len(sequences(capture)) = 1
    /\ Len(sequences(lastCall.other)) = 1
    /\ sequences(capture)[1].bounds = << 5, 5, 10, 10 >>
    /\ sequences(lastCall.other)[1].bounds = << 9, 39, 200, 100 >>
    /\ lastCall.result = TRUE

----------------------------------------------------------------------------
(* Waiting claims (SpecWait) *)

WaitForDone == wait.pc = "done" /\ wait.op = "wait_for"

\* The last read of the byte source reported a genuine failure.
FailureReported == wait.lastRead.kind = "Err" /\ wait.lastRead.error \in Failures

\* The last read of the byte source reported that no data is available now.
WouldBlockReported == wait.lastRead.kind = "Err" /\ wait.lastRead.error \in WouldBlocks

\* C25: with a byte source that never reports a failure, a wait_for whose
\* predicate never becomes true ends with a Timeout error whose timeout_ms
\* is the configured timeout, and never with success.
C25_NeverTrueTimesOut ==
    (WaitForDone /\ wait.condition = "never" /\ ~FailureReported) =>
        /\ ~wait.result.ok
        /\ wait.result.error.variant = "Timeout"
        /\ wait.result.error.timeout_ms * MicrosPerMilli = wait.timeout

\* C26: when the ScreenState has come to satisfy the predicate before the
\* timeout has elapsed, wait_for has returned success (at that poll, with no
\* further sleep), never Timeout.
C26_SuccessBeforeTimeout ==
    (/\ WaitForDone
     /\ ~FailureReported
     /\ Condition(wait.condition, state)
     /\ wait.elapsed < wait.timeout) => wait.result = Ok

\* No time has passed in the wait but that of its sleeps, each of them one
\* poll interval long.
OnlySleepsCounted == wait.elapsed = wait.sleeps * wait.poll_interval

\* C27: a wait_for that times out returns no earlier than the configured
\* timeout after its start; counting time in poll-interval sleeps (draining
\* and evaluating the predicate taking no time), it returns no later than
\* the timeout plus one poll interval.
C27_TimeoutWindow ==
    (WaitForDone /\ ~wait.result.ok /\ wait.result.error.variant = "Timeout") =>
        /\ wait.elapsed >= wait.timeout
        /\ OnlySleepsCounted => wait.elapsed <= wait.timeout + wait.poll_interval

C27_Witness ==
    /\ WaitForDone
    /\ wait.result = Err(Timeout(2))
    /\ wait.timeout = 2 * MicrosPerMilli + 500
    /\ wait.poll_interval = MicrosPerMilli + 500
    /\ wait.elapsed = 2 * (MicrosPerMilli + 500)
    /\ wait.sleeps = 2
    /\ wait.evals = 3

\* C28: a would-block report of the byte source is not an error: it never
\* becomes the result of update_state or wait_for, update_state returns Ok on
\* it, and wait_for goes on to evaluate the predicate.
C28_WouldBlockIsNoError ==
    (wait.pc # "idle" /\ WouldBlockReported) =>
        /\ wait.result # Err(wait.lastRead.error)
        /\ wait.op \in {"update_state", "send_text"} =>
              (wait.pc = "done" /\ wait.result = Ok)
        /\ wait.op = "wait_for" => wait.evals > 0

\* C29: a genuine I/O failure reported by the byte source during a wait is at
\* once the result of wait_for, unchanged: the read that fails ends the call
\* with that error, without another evaluation of the predicate, without a
\* sleep (only the time of the read itself passes) and without feeding
\* anything.
C29_FailurePropagates ==
    [][ (/\ wait.pc = "reading"
         /\ wait' # wait
         /\ wait'.lastRead.kind = "Err"
         /\ wait'.lastRead.error \in Failures)
            => /\ wait'.pc = "done"
               /\ wait'.result = Err(wait'.lastRead.error)
               /\ wait'.evals = wait.evals
               /\ wait'.sleeps = wait.sleeps
               /\ wait'.elapsed - wait.elapsed \in Delays
               /\ state' = state ]_vars

C29_Witness ==
    /\ WaitForDone
    /\ wait.result = Err(IoFailure)
    /\ wait.evals = 1
    /\ wait.sleeps = 1
    /\ wait.elapsed = MicrosPerMilli
    /\ fed # << >>

\* C30: update_state, alone or as a poll of wait_for, returns Ok only after
\* a read has found the byte source without data; by then every byte that
\* was available has been fed, in the order read, and the ScreenState is the
\* result of feeding them in that order.
C30_Drains ==
    [][ (/\ wait.pc = "reading"
         /\ \/ /\ wait'.pc = "done"
               /\ wait'.op \in {"update_state", "send_text"}
               /\ wait'.result = Ok
            \/ wait'.evals = wait.evals + 1)
            => /\ ptyBuf = << >>
               /\ ptyBuf' = << >>
               /\ state' = feed(ScreenState_new(ScreenW, ScreenH), fed') ]_vars

C30_Witness ==
    /\ wait.pc = "done"
    /\ wait.op = "update_state"
    /\ wait.result = Ok
    /\ fed = Cup(2, 3) \o Sixel(<< >>, << TILDE >>)
    /\ Len(sixel_regions(state)) = 1
    /\ ptyBuf = << >>

----------------------------------------------------------------------------
(* Position queries (SpecSixel) *)

\* Rows and columns asked for: the start positions of the streams, their
\* neighbours, the origin and the cells a 100 x 50 region at (4, 9) would cover
\* if pixels were cells.
QueryRows == {0, 4, 5, 7, 9, 14, 19, 23, 54}
QueryCols == {0, 9, 10, 14, 29, 59, 79, 109}

\* Read off the bytes fed: before the ESC of the introducer of some complete
\* sequence the cursor addressing in the stream had put the cursor on
\* (row, col).
SequenceBeganAt(row, col) ==
    LET starts == CompleteStarts(fed, 1)
    IN  \E k \in 1 .. Len(starts) :
            cursor_position(feed(Fresh, SubSeq(fed, 1, starts[k] - 1))) = << row, col >>

\* C31: has_sixel_at(row, col) and the harness's sixel_at(row, col) find a
\* region if and only if a complete sequence of the bytes fed began with the
\* cursor exactly on (row, col); sixel_at yields a region that starts there;
\* the cells a region would cover if its pixel size were a size in cells are
\* not found; while no sequence is complete nothing is found.
C31_ExactStart ==
    \A row \in QueryRows, col \in QueryCols :
        /\ has_sixel_at(state, row, col) <=> SequenceBeganAt(row, col)
        /\ sixel_at(state, row, col).some <=> SequenceBeganAt(row, col)
        /\ sixel_at(state, row, col).some =>
              /\ sixel_at(state, row, col).value.start_row = row
              /\ sixel_at(state, row, col).value.start_col = col
              /\ \E i \in 1 .. Len(Regions) : sixel_at(state, row, col).value = Regions[i]
        /\ CompleteStarts(fed, 1) = << >> => ~ has_sixel_at(state, row, col)

\* test_harness_sixel_at: the 120 x 80 region is found at (7, 14), where its
\* sequence began, with its width; not one cell to the right or below, nor at
\* the origin.
C31_Witness ==
    /\ fed = SixelAtStream
    /\ sixel_count(state) = 1
    /\ has_sixel_at(state, 7, 14)
    /\ sixel_at(state, 7, 14).some
    /\ sixel_at(state, 7, 14).value.width = 120
    /\ ~ has_sixel_at(state, 7, 29)
    /\ ~ has_sixel_at(state, 9, 14)
    /\ sixel_at(state, 0, 0) = None

\* C33: positions are 0-based: a fresh ScreenState has its cursor at (0, 0);
\* once ESC[r;cH with 1-based r, c inside the screen has been fed to it,
\* cursor_position() is (r-1, c-1); a region detected after that addressing
\* starts at (r-1, c-1).
C33_ZeroBased ==
    /\ fed = << >> => cursor_position(state) = << 0, 0 >>
    /\ \A pos \in Positions :
          /\ fed = Cup(pos[1], pos[2]) =>
                cursor_position(state) = << pos[1] - 1, pos[2] - 1 >>
          /\ \A r \in Rasters, pl \in Payloads :
                fed = PlacedSixel(pos, r, pl) =>
                    /\ Len(Regions) = 1
                    /\ Regions[1].start_row = pos[1] - 1
                    /\ Regions[1].start_col = pos[2] - 1

\* ESC[5;10H has just been fed: the cursor is at (4, 9).
C33_Witness ==
    /\ fed = Cup(5, 10)
    /\ cursor_position(state) = << 4, 9 >>
    /\ Regions = << >>

----------------------------------------------------------------------------
(* Order of one poll of wait_for (SpecWait) *)

TimedOut(w) == ~ w.result.ok /\ w.result.error.variant = "Timeout"

\* C35: one poll of wait_for drains the byte source, then evaluates the
\* predicate, then checks the deadline, then sleeps.  An evaluation happens
\* only when the source has been drained; an evaluation at which the
\* predicate holds ends the wait with success whatever time has elapsed (also
\* with a zero timeout); Timeout is returned only at an evaluation at which
\* the predicate is false and the timeout has elapsed; otherwise the wait
\* sleeps at least one poll interval and polls again; a wait that ends
\* without any evaluation has ended with the error of a read.
C35_PollOrder ==
    [][ (wait.pc = "reading" /\ wait.op = "wait_for" /\ wait' # wait) =>
          LET evaluated == wait'.evals = wait.evals + 1
              holds == Condition(wait.condition, state')
          IN  /\ wait'.evals \in {wait.evals, wait.evals + 1}
              /\ wait'.sleeps \in {wait.sleeps, wait.sleeps + 1}
              /\ evaluated => (ptyBuf = << >> /\ state' = state)
              /\ (evaluated /\ holds) =>
                    (wait'.pc = "done" /\ wait'.result = Ok /\ wait'.sleeps = wait.sleeps)
              /\ (evaluated /\ ~ holds /\ wait'.pc = "done") =>
                    /\ TimedOut(wait')
                    /\ wait'.elapsed >= wait.timeout
                    /\ wait'.sleeps = wait.sleeps
              /\ (evaluated /\ ~ holds /\ wait'.pc = "reading") =>
                    /\ wait'.sleeps = wait.sleeps + 1
                    /\ \E d \in Delays, o \in Oversleeps :
                          /\ wait.elapsed + d < wait.timeout
                          /\ wait'.elapsed = wait.elapsed + d + wait.poll_interval + o
              /\ (wait'.pc = "done" /\ TimedOut(wait')) => (evaluated /\ ~ holds)
              /\ (wait'.pc = "done" /\ wait'.result = Ok) => (evaluated /\ holds)
              /\ wait'.sleeps = wait.sleeps + 1 => (evaluated /\ ~ holds)
              /\ (wait'.pc = "done" /\ wait'.evals = 0) =>
                    (wait'.lastRead.kind = "Err" /\ wait'.result = Err(wait'.lastRead.error))
      ]_vars

\* A wait with a zero timeout whose single evaluation finds the cursor where
\* the predicate wants it: success, at elapsed time 0.
C35_Witness ==
    /\ WaitForDone
    /\ wait.timeout = 0
    /\ wait.condition = "cursor_at_1_2"
    /\ wait.evals = 1
    /\ wait.elapsed = 0
    /\ wait.result = Ok
    /\ cursor_position(state) = << 1, 2 >>

----------------------------------------------------------------------------
(* Construction, resize and child process (SpecLife) *)

ZeroDim(width, height) == width = 0 \/ height = 0

\* The step is a call of harness.resize.
ResizeStep == terminal.made /\ lastCall'.op = "resize" /\ UNCHANGED << ptyBuf, terminal >>

\* C32: zero dimensions are rejected by the harness layer and not by
\* ScreenState: TestTerminal::new, TuiTestHarness::new and resize return
\* InvalidDimensions whenever the width or the height is 0, whether or not
\* the PTY would have accepted, and then no terminal and no ScreenState has
\* been made (resize: the ones at hand are kept); ScreenState::new builds a
\* ScreenState of any size.
C32_ZeroDimensionsRejected ==
    [][ /\ (~ terminal.made /\ lastCall'.op = "new"
               /\ ZeroDim(lastCall'.width, lastCall'.height)) =>
              /\ lastCall'.result =
                    Err(InvalidDimensions(lastCall'.width, lastCall'.height))
              /\ \A ptyOk \in BOOLEAN :
                    TestTerminal_new(lastCall'.width, lastCall'.height, ptyOk)
                        = lastCall'.result
              /\ terminal' = NoTerminal
              /\ state' = NoState
        /\ (ResizeStep /\ ZeroDim(lastCall'.width, lastCall'.height)) =>
              /\ lastCall'.result =
                    Err(InvalidDimensions(lastCall'.width, lastCall'.height))
              /\ state' = state
        /\ \A w \in LifeWidths \cup ResizeWidths, h \in LifeHeights :
              size(ScreenState_new(w, h)) = << w, h >>
      ]_vars

\* TuiTestHarness::new(0, 24) has returned InvalidDimensions: there is no
\* terminal and no ScreenState.
C32_Witness ==
    /\ lastCall = [op |-> "new", width |-> 0, height |-> ScreenH,
                   result |-> Err(InvalidDimensions(0, ScreenH))]
    /\ terminal = NoTerminal
    /\ state = NoState

\* C36: a successful harness.resize(w, h) replaces the ScreenState by a fresh
\* one: size (w, h), cursor (0, 0), no region history, nothing of the earlier
\* output; a resize that fails (zero dimension, or the PTY refuses) leaves
\* the ScreenState as it was.
C36_ResizeReplaces ==
    [][ ResizeStep =>
          IF lastCall'.result.ok
          THEN /\ state' = ScreenState_new(lastCall'.width, lastCall'.height)
               /\ size(state') = << lastCall'.width, lastCall'.height >>
               /\ cursor_position(state') = << 0, 0 >>
               /\ sixel_regions(state') = << >>
               /\ state'.cells = EmptyCells
               /\ ~ ZeroDim(lastCall'.width, lastCall'.height)
          ELSE /\ state' = state
               /\ lastCall'.result.error.variant \in {"InvalidDimensions", "Pty"}
      ]_vars

\* The child's output had been read (one region, cursor moved) when
\* resize(40, 24) succeeded: the ScreenState is a fresh 40 x 24 one.
C36_Witness ==
    /\ lastCall = [op |-> "resize", width |-> 40, height |-> ScreenH, result |-> Ok]
    /\ nWrites = 1
    /\ ptyBuf = << >>
    /\ fed = << >>
    /\ state = ScreenState_new(40, ScreenH)

\* The step is a call of spawn / is_running that changes something; a call
\* of wait that takes the child and blocks; the return of a wait, at once or
\* after it has blocked.
SpawnStep == lastCall'.op = "spawn" /\ lastCall' # lastCall
WaitTakes == lastCall'.op = "wait" /\ lastCall'.result = InWait /\ lastCall' # lastCall
WaitStep == lastCall'.op = "wait" /\ lastCall'.result # InWait /\ lastCall' # lastCall
IsRunningStep == lastCall'.op = "is_running" /\ lastCall' # lastCall

\* C38: a terminal has at most one child attached: spawn on a terminal that
\* holds a child, running or exited and not waited on, returns
\* ProcessAlreadyRunning and leaves the held child as it is; a spawn that
\* fails leaves the terminal without a child; a running child becomes
\* attached only by a successful spawn on a terminal without a child.
C38_OneChild ==
    [][ /\ SpawnStep =>
              /\ terminal.child.some =>
                    /\ lastCall'.result = Err(ProcessAlreadyRunning)
                    /\ terminal' = terminal
              /\ (~ terminal.child.some /\ ~ lastCall'.result.ok) =>
                    /\ lastCall'.result = Err(SpawnFailed)
                    /\ terminal'.child = None
              /\ lastCall'.result.ok =>
                    /\ ~ terminal.child.some
                    /\ terminal'.child = Some(Child(FALSE))
        /\ (terminal'.child # terminal.child /\ terminal'.child = Some(Child(FALSE))) =>
              /\ terminal.made
              /\ ~ terminal.child.some
              /\ lastCall'.op = "spawn"
              /\ lastCall'.result = Ok
      ]_vars

\* The child has exited and has not been waited on: spawn was refused and
\* the exited child is still held.
C38_Witness ==
    /\ lastCall = [op |-> "spawn", result |-> Err(ProcessAlreadyRunning)]
    /\ terminal.child = Some(Child(TRUE))

\* C39: wait on a terminal without a child returns NoProcessRunning; wait on
\* a terminal with a child detaches it at once and keeps it detached whether
\* the wait succeeds (which it does only once the child has exited) or
\* fails; after a wait is_running() is false, another wait returns
\* NoProcessRunning and spawn is accepted; is_running() is false whenever no
\* child is attached.
C39_WaitDetaches ==
    [][ /\ WaitTakes =>
              /\ terminal.child.some
              /\ terminal'.child = None
              /\ terminal'.waiting = terminal.child
        /\ terminal.waiting.some => terminal'.child = None
        /\ WaitStep =>
              /\ (~ terminal.child.some /\ ~ terminal.waiting.some) =>
                    (lastCall'.result = Err(NoProcessRunning) /\ terminal' = terminal)
              /\ terminal.waiting.some =>
                    /\ lastCall'.result \in {OkV("ExitStatus"), Err(WaitFailure)}
                    /\ lastCall'.result.ok => terminal.waiting.value.exited
              /\ ~ terminal.child.some
              /\ terminal'.child = None
              /\ terminal'.waiting = None
              /\ \A b \in BOOLEAN :
                    /\ ~ is_running(terminal', b)
                    /\ TestTerminal_wait(terminal', b).result = Err(NoProcessRunning)
                    /\ spawn(terminal', b).result # Err(ProcessAlreadyRunning)
              /\ spawn(terminal', TRUE).result = Ok
        /\ (IsRunningStep /\ ~ terminal.child.some) => lastCall'.result = FALSE
        /\ (SpawnStep /\ lastCall.op = "wait") =>
              lastCall'.result # Err(ProcessAlreadyRunning)
        /\ (WaitStep /\ lastCall.op = "wait" /\ lastCall.result # InWait) =>
              lastCall'.result = Err(NoProcessRunning)
        /\ (IsRunningStep /\ lastCall.op = "wait") => lastCall'.result = FALSE
      ]_vars

\* A wait that failed after the child had written: the child is detached
\* all the same.
C39_Witness ==
    /\ lastCall = [op |-> "wait", result |-> Err(WaitFailure)]
    /\ terminal.child = None
    /\ terminal.waiting = None
    /\ terminal.spawned
    /\ nWrites = 1

----------------------------------------------------------------------------
(* Text queries (SpecText) *)

OffScreen(row, col) == row >= state.height \/ col >= state.width

\* The step is a call of row_contents, char_at or text_at.
TextQueryStep ==
    lastCall' # lastCall /\ lastCall'.op \in {"row_contents", "char_at", "text_at"}

\* C34: queries off the screen never fail: row_contents(row) is empty when
\* row >= height; char_at is absent, and text_at is false, when row >= height
\* or col >= width; and no call of these queries changes the ScreenState.
C34_OffScreenQueries ==
    [][ TextQueryStep =>
          /\ state' = state
          /\ (lastCall'.op = "row_contents" /\ lastCall'.row >= state.height) =>
                lastCall'.result = << >>
          /\ (lastCall'.op = "char_at" /\ OffScreen(lastCall'.row, lastCall'.col)) =>
                lastCall'.result = None
          /\ (lastCall'.op = "text_at" /\ OffScreen(lastCall'.row, lastCall'.col)) =>
                lastCall'.result = Returned(FALSE)
      ]_vars

\* "Hello" is on the screen and row_contents(24), the first row off the
\* 24-row screen, has returned the empty string.
C34_Witness ==
    /\ fed = Hello
    /\ lastCall = [op |-> "row_contents", row |-> ScreenH, result |-> << >>]
    /\ row_contents(state, 0) = Hello

\* The columns from col on whose cell in the row has been written.
WrittenFrom(s, row, col) ==
    { c \in col .. (s.width - 1) : << row, c >> \in DOMAIN s.cells }

RECURSIVE Spell(_, _, _, _, _, _)
\* The cells of a row from column col on spell text[i], text[i + 1], ..: every
\* cell holds the character that comes next in the text, an empty cell
\* reading as nothing (Blank = << >>, the empty cells are passed over) or as a
\* space (Blank = << SP >>).
Spell(s, row, col, text, i, Blank) ==
    IF i > Len(text) THEN TRUE
    ELSE IF col >= s.width THEN FALSE
    ELSE IF << row, col >> \in DOMAIN s.cells
    THEN /\ starts_with(SubSeq(text, i, Len(text)), s.cells[<< row, col >>])
         /\ Spell(s, row, col + 1, text, i + Len(s.cells[<< row, col >>]), Blank)
    ELSE IF Blank = << >>
    THEN LET later == WrittenFrom(s, row, col)
         IN  /\ later # {}
             /\ Spell(s, row, CHOOSE c \in later : \A d \in later : c <= d, text, i, Blank)
    ELSE /\ text[i] = SP
         /\ Spell(s, row, col + 1, text, i + 1, Blank)

\* C37: text_at(row, col, text) never fails and, for (row, col) on the
\* screen, is true if and only if the cells of the row from column col on
\* spell text, whether the cells hold one-byte characters, multi-byte
\* characters or nothing (an empty cell read as nothing or as a space, where
\* the two readings agree).
C37_TextAtSelectsCells ==
    [][ (/\ TextQueryStep
         /\ lastCall'.op = "text_at"
         /\ ~ OffScreen(lastCall'.row, lastCall'.col)) =>
            /\ ~ lastCall'.result.panic
            /\ \A v \in BOOLEAN :
                  (\A Blank \in { << >>, << SP >> } :
                      Spell(state, lastCall'.row, lastCall'.col, lastCall'.text, 1, Blank)
                          = v)
                      => lastCall'.result = Returned(v)
      ]_vars

====
